---- MODULE Spec2Model ----
(***************************************************************************)
(* Feedback classification and insight-aggregation pipeline.               *)
(*                                                                         *)
(* The specifications of this module:                                      *)
(*   Spec         one daily run, through either entry point                *)
(*                (DailyAnalysisWorkflow.run or handleScheduled);          *)
(*   SpecAgg      the aggregation functions applied to record lists        *)
(*                (GET /api/stats, analyzeWithAI, analyzeFeedback and the  *)
(*                notification message they lead to);                      *)
(*   SpecClassify the classifier (inferFeedbackMetadata, mockAiInference)  *)
(*                and label validation (sanitizeChoice);                   *)
(*   SpecWords    the word ranking of GET /api/stats;                      *)
(*   SpecIssues   the top-issues list for record lists with many groups;   *)
(*   SpecTrigger  the cron trigger (scheduled) that starts the workflow;   *)
(*   SpecDash, SpecParse, SpecCron, SpecRetry                              *)
(*                single functions applied to enumerated arguments: the    *)
(*                narrative of GET /dashboard, safeParseAiJson, the cron   *)
(*                routing of config.ts, retryAsync.                        *)
(*                                                                         *)
(* JavaScript strings are TLA+ strings; null and undefined are NULL.       *)
(***************************************************************************)
EXTENDS Integers, Sequences, FiniteSets, TLC

VARIABLES
    env,              \* bindings of the worker: AI, SLACK_WEBHOOK_URL
    feedback_db,      \* rows of table feedback, in insertion order
    analysis_logs,    \* rows of table analysis_logs
    entry,            \* entry point of the run: "workflow" | "scheduled"
    status,           \* "idle" | "running" | "done" | "errored"
    pc,               \* index of the next step in Steps(entry)
    fetchOutcome,     \* "pending" | "ok" | "throw": how the query of the run ended
    feedbackData,     \* rows fetched by the run
    analysis,         \* result of analyzeWithAI / analyzeFeedback
    insights,         \* result of generateInsights (workflow only)
    slackResult,      \* outcome of the delivery step
    slackCalls,       \* requests sent to the notification collaborator
    logCalls,         \* INSERTs into analysis_logs issued by the run
    trace,            \* steps executed by the run, in order
    deliveredResult   \* the AnalysisResult at the start of the delivery step

VARIABLES
    aggRecords,       \* rows of table feedback the aggregation is applied to
    aggOp,            \* "none" | "stats" | "workflow" | "scheduled"
    aggInput,         \* the rows the aggregation received
    aggResult,        \* the statistics or the AnalysisResult it returned
    aggBlocks         \* the notification message built from the result

aggVars == <<aggRecords, aggOp, aggInput, aggResult, aggBlocks>>

VARIABLES
    clsEnv,           \* bindings seen by POST /ingest: AI, USE_MOCK_AI
    clsReq,           \* the request: payload, and how the collaborator answers
    clsLabels,        \* what inferFeedbackMetadata returned (or that it threw)
    clsStored,        \* the record built for the INSERT into feedback
    clsInsert,        \* the INSERT: "none" (not issued) | "ok" | "throw"
    clsTable,         \* rows of table feedback written by the request
    clsResp           \* "none" | "ok" | "400" | "threw"

clsVars == <<clsEnv, clsReq, clsLabels, clsStored, clsInsert, clsTable, clsResp>>

VARIABLES
    trgBinding,       \* is DAILY_ANALYSIS_WORKFLOW bound
    trgClock,         \* the wall clock, in hours since 2026-01-10T00:00Z
    trgProc,          \* the invocations of scheduled: position and locals
    trgInstances,     \* ids of the workflow instances the binding created
    trgWarnings       \* console.warn lines of the .catch handler

trgVars == <<trgBinding, trgClock, trgProc, trgInstances, trgWarnings>>

VARIABLES
    fnOp,             \* "none", or the function that was applied
    fnArgs,           \* its arguments, and how its collaborators answer
    fnResult          \* what it returned, and the calls it made

fnVars == <<fnOp, fnArgs, fnResult>>

runVars == <<env, feedback_db, analysis_logs, entry, status, pc, fetchOutcome,
             feedbackData,
             analysis, insights, slackResult, slackCalls, logCalls, trace,
             deliveredResult>>

-----------------------------------------------------------------------------
(* Bounds of the model *)

MaxFeedback == 3        \* rows inserted into feedback before a daily run
MaxRecords == 6         \* rows handed to the aggregation functions
MaxWordRecords == 4     \* rows handed to the keyword ranking

-----------------------------------------------------------------------------
(* JavaScript values *)

NULL == "<null>"

\* JS truthiness of a string-or-null value, as used by `x || y` and `if (x)`
Falsy(v) == v = NULL \/ v = ""

Or(v, w) == IF Falsy(v) THEN w ELSE v

Min(a, b) == IF a < b THEN a ELSE b

\* Array.prototype.slice(0, n)
Slice(s, n) == SubSeq(s, 1, Min(n, Len(s)))

\* String.prototype.startsWith
StartsWith(s, p) == Len(s) >= Len(p) /\ SubSeq(s, 1, Len(p)) = p

\* String.prototype.indexOf from position `from` (1-based; 0 when absent)
RECURSIVE IndexOfFrom(_, _, _)
IndexOfFrom(s, p, from) ==
    IF from + Len(p) - 1 > Len(s) THEN 0
    ELSE IF SubSeq(s, from, from + Len(p) - 1) = p THEN from
    ELSE IndexOfFrom(s, p, from + 1)

\* String.prototype.includes
Includes(s, p) == IndexOfFrom(s, p, 1) # 0

Whitespace == {" ", "\t", "\n"}

\* String.prototype.trim
RECURSIVE TrimStart(_)
TrimStart(s) ==
    IF Len(s) > 0 /\ SubSeq(s, 1, 1) \in Whitespace
    THEN TrimStart(SubSeq(s, 2, Len(s))) ELSE s

RECURSIVE TrimEnd(_)
TrimEnd(s) ==
    IF Len(s) > 0 /\ SubSeq(s, Len(s), Len(s)) \in Whitespace
    THEN TrimEnd(SubSeq(s, 1, Len(s) - 1)) ELSE s

Trim(s) == TrimEnd(TrimStart(s))

\* String.prototype.split("\n")
RECURSIVE SplitLines(_)
SplitLines(s) ==
    LET i == IndexOfFrom(s, "\n", 1)
    IN IF i = 0 THEN <<s>>
       ELSE <<SubSeq(s, 1, i - 1)>> \o SplitLines(SubSeq(s, i + 1, Len(s)))

UpperCase == "ABCDEFGHIJKLMNOPQRSTUVWXYZ"
LowerCase == "abcdefghijklmnopqrstuvwxyz"

LowerOf == [c \in {SubSeq(UpperCase, i, i) : i \in 1..Len(UpperCase)} |->
              LET i == CHOOSE i \in 1..Len(UpperCase) : SubSeq(UpperCase, i, i) = c
              IN SubSeq(LowerCase, i, i)]

LowerChar(c) == IF c \in DOMAIN LowerOf THEN LowerOf[c] ELSE c

\* String.prototype.toLowerCase
RECURSIVE ToLowerCase(_)
ToLowerCase(s) ==
    IF Len(s) = 0 THEN ""
    ELSE LowerChar(SubSeq(s, 1, 1)) \o ToLowerCase(SubSeq(s, 2, Len(s)))

-----------------------------------------------------------------------------
(* Plain objects used as counting maps: `{} as Record<string, number>`     *)

EmptyObj == [k \in {} |-> 0]

\* Keys every object literal inherits from Object.prototype.  Reading one
\* from `{}` gives a truthy non-number, so `(obj[k] || 0) + 1` is no count;
\* for "__proto__" the assignment of that value is ignored by the setter.
InheritedKeys == {"__proto__"}

\* obj[k] || 0
ObjGet(obj, k) == IF k \in DOMAIN obj THEN obj[k] ELSE 0

\* obj[k] = (obj[k] || 0) + 1
ObjInc(obj, k) ==
    IF k \in InheritedKeys THEN obj
    ELSE IF k \in DOMAIN obj THEN [obj EXCEPT ![k] = @ + 1]
    ELSE obj @@ (k :> 1)

\* sum of Object.values(obj)
RECURSIVE SumOver(_, _)
SumOver(obj, keys) ==
    IF keys = {} THEN 0
    ELSE LET k == CHOOSE x \in keys : TRUE
         IN obj[k] + SumOver(obj, keys \ {k})

SumValues(obj) == SumOver(obj, DOMAIN obj)

-----------------------------------------------------------------------------
(* Time.  Instants are whole days; NowT is `new Date()` / `Date.now()`.    *)

NowT == 10

OneDay == 1             \* 24 * 60 * 60 * 1000 ms
SevenDays == 7          \* 7 * 24 * 60 * 60 * 1000 ms

\* Date.prototype.getTime() of an invalid date
NaN == 0 - 1

\* A created_at column value: an ISO 8601 instant, or text that is no date
IsoDate(t) == [valid |-> TRUE, t |-> t]
BadDate == [valid |-> FALSE, t |-> 0]

\* new Date(created_at).getTime()
DateGetTime(c) == IF c.valid THEN c.t ELSE NaN

\* a > b on numbers, false whenever an operand is NaN
JSGreater(a, b) == a # NaN /\ b # NaN /\ a > b

-----------------------------------------------------------------------------
(* Rows of table feedback *)

Row(src, text, s, p, c, sum, at) ==
    [source |-> src, raw_text |-> text, sentiment |-> s, priority |-> p,
     category |-> c, summary |-> sum, created_at |-> at]

\* Rows a daily run may find in the store
RunPool ==
    { Row("github", "App crashes on login", "negative", "P0", "bug",
          "App crashes on login", IsoDate(NowT)),
      Row("email", "hm", NULL, NULL, NULL, NULL, IsoDate(NowT - OneDay)),
      Row("twitter", "Login is slow", "positive", "P1", "__proto__",
          "App crashes on login", IsoDate(NowT - OneDay - 1)) }

-----------------------------------------------------------------------------
(* The inference collaborator, as the daily run uses it (env.AI.run).      *)
(* A reply is a thrown error, or a value whose result.response is absent   *)
(* (NULL), a string, or a truthy value that is no string.                  *)

AiThrows == [kind |-> "throw", response |-> NULL]
AiObject == [kind |-> "object", response |-> NULL]
AiValue(text) == [kind |-> "value", response |-> text]

AiReplies ==
    { AiThrows, AiObject, AiValue(NULL), AiValue(""), AiValue(" \n"),
      AiValue("1. Fix login\n\n2. Add tests"),
      AiValue("Sure:\n1. a\n2. b\n3. c\n4. d") }

\* the catch branch of the recommendation request
GenericActions ==
    << "Review high-priority feedback items",
       "Investigate recurring issues",
       "Follow up with affected customers" >>

NonBlank(line) == Len(Trim(line)) > 0

\* response.result.response.split("\n").filter(line => line.trim().length > 0)
ResponseLines(ai) ==
    IF ai.kind = "throw" THEN GenericActions
    ELSE IF ai.kind = "object" THEN GenericActions   \* .split is no function
    ELSE IF Falsy(ai.response) THEN <<>>
    ELSE SelectSeq(SplitLines(ai.response), NonBlank)

-----------------------------------------------------------------------------
(* Analysis of the fetched rows *)

IsUrgent(item) == Or(item.priority, "unknown") \in {"P0", "P1"}

\* issues.get(item.summary): position of the entry in the Map, 0 when absent
IssueIndex(issues, key) ==
    IF \E i \in 1..Len(issues) : issues[i].issue = key
    THEN CHOOSE i \in 1..Len(issues) : issues[i].issue = key
    ELSE 0

\* the "Track issues" part of the loop body
TrackIssue(issues, item) ==
    IF Falsy(item.summary) THEN issues
    ELSE LET i == IssueIndex(issues, item.summary)
         IN IF i = 0
            THEN Append(issues, [issue |-> item.summary, count |-> 1,
                                 sentiment |-> Or(item.sentiment, "neutral")])
            ELSE [issues EXCEPT ![i].count = @ + 1]

\* one iteration of feedback.forEach (the two loops differ only in how they
\* keep the urgent rows: a list in the workflow, a counter in the handler)
CountItem(acc, item) ==
    [byPriority  |-> ObjInc(acc.byPriority, Or(item.priority, "unknown")),
     bySentiment |-> ObjInc(acc.bySentiment, Or(item.sentiment, "unknown")),
     byCategory  |-> ObjInc(acc.byCategory, Or(item.category, "other")),
     urgentItems |-> IF IsUrgent(item) THEN Append(acc.urgentItems, item)
                     ELSE acc.urgentItems,             \* workflow
     urgentCount |-> IF IsUrgent(item) THEN acc.urgentCount + 1
                     ELSE acc.urgentCount,             \* scheduled handler
     issues      |-> TrackIssue(acc.issues, item)]

EmptyCounts ==
    [byPriority |-> EmptyObj, bySentiment |-> EmptyObj, byCategory |-> EmptyObj,
     urgentItems |-> <<>>, urgentCount |-> 0, issues |-> <<>>]

RECURSIVE CountAll(_)
CountAll(feedback) ==
    IF feedback = <<>> THEN EmptyCounts
    ELSE CountItem(CountAll(SubSeq(feedback, 1, Len(feedback) - 1)),
                   feedback[Len(feedback)])

\* a sort that puts an element before the elements of equal count
RECURSIVE InsertByCountTiesFirst(_, _)
InsertByCountTiesFirst(sorted, x) ==
    IF sorted = <<>> THEN <<x>>
    ELSE IF Head(sorted).count > x.count
         THEN <<Head(sorted)>> \o InsertByCountTiesFirst(Tail(sorted), x)
         ELSE <<x>> \o sorted

\* Array.prototype.sort((a, b) => b.count - a.count): stable, descending
RECURSIVE InsertByCount(_, _)
InsertByCount(sorted, x) ==
    IF sorted = <<>> THEN <<x>>
    ELSE IF Head(sorted).count >= x.count
         THEN <<Head(sorted)>> \o InsertByCount(Tail(sorted), x)
         ELSE <<x>> \o sorted

RECURSIVE SortByCountDesc(_)
SortByCountDesc(s) ==
    IF s = <<>> THEN <<>>
    ELSE InsertByCount(SortByCountDesc(SubSeq(s, 1, Len(s) - 1)), s[Len(s)])

TopIssuesCap == 5
UrgentItemsCap == 5
ActionsCap == 4
ShownCap == 3

\* a top-issues list cut from the groups in their order of first occurrence
TopIssuesUnsorted(issues) == Slice(issues, TopIssuesCap)

\* Array.from(issues.entries()).map(...).sort(...).slice(0, 5)
TopIssues(issues) == Slice(SortByCountDesc(issues), TopIssuesCap)

\* DailyAnalysisWorkflow.analyzeWithAI
analyzeWithAI(feedback, hasAI, ai) ==
    IF Len(feedback) = 0
    THEN [totalFeedback |-> 0, byPriority |-> EmptyObj, bySentiment |-> EmptyObj,
          byCategory |-> EmptyObj, topIssues |-> <<>>,
          recommendedActions |-> <<>>, urgentItems |-> <<>>]
    ELSE LET stats == CountAll(feedback)
             topIssues == TopIssues(stats.issues)
         IN [totalFeedback |-> Len(feedback),
             byPriority |-> stats.byPriority,
             bySentiment |-> stats.bySentiment,
             byCategory |-> stats.byCategory,
             topIssues |-> topIssues,
             recommendedActions |->
                 IF hasAI /\ Len(topIssues) > 0 THEN ResponseLines(ai) ELSE <<>>,
             urgentItems |-> stats.urgentItems]

\* DailyAnalysisWorkflow.generateInsights
generateInsights(a) ==
    [a EXCEPT !.urgentItems = Slice(a.urgentItems, UrgentItemsCap)]

\* analyzeFeedback of the scheduled handler
analyzeFeedback(feedback, hasAI, ai) ==
    LET stats == CountAll(feedback)
        topIssues == TopIssues(stats.issues)
    IN [totalFeedback |-> Len(feedback),
        byPriority |-> stats.byPriority,
        bySentiment |-> stats.bySentiment,
        byCategory |-> stats.byCategory,
        urgentCount |-> stats.urgentCount,
        topIssues |-> topIssues,
        recommendedActions |->
            IF hasAI /\ Len(topIssues) > 0
            THEN (IF ai.kind = "value" THEN Slice(ResponseLines(ai), ActionsCap)
                  ELSE ResponseLines(ai))
            ELSE <<>>]

-----------------------------------------------------------------------------
(* The notification message *)

\* new URL(s): scheme, host and path of an absolute URL; ok = FALSE when the
\* constructor throws TypeError
ParseURL(s) ==
    LET scheme == IF StartsWith(s, "https://") THEN "https://"
                  ELSE IF StartsWith(s, "http://") THEN "http://" ELSE ""
        rest == SubSeq(s, Len(scheme) + 1, Len(s))
        slash == IndexOfFrom(rest, "/", 1)
        host == IF slash = 0 THEN rest ELSE SubSeq(rest, 1, slash - 1)
    IN IF scheme = "" \/ host = "" \/ Includes(host, " ")
       THEN [ok |-> FALSE, origin |-> "", hostname |-> "", pathname |-> ""]
       ELSE [ok |-> TRUE, origin |-> scheme \o host, hostname |-> host,
             pathname |-> IF slash = 0 THEN "/"
                          ELSE SubSeq(rest, slash, Len(rest))]

\* the line shown for one urgent row
UrgentLine(item) ==
    [priority |-> item.priority,
     text |-> Or(item.summary, Slice(item.raw_text, 80)),
     source |-> item.source, created_at |-> item.created_at]

RECURSIVE Map(_, _)
Map(s, i) == IF i > Len(s) THEN <<>> ELSE <<UrgentLine(s[i])>> \o Map(s, i + 1)

UrgentLines(items) == Map(items, 1)

\* the blocks built by DailyAnalysisWorkflow.sendToSlack
WorkflowBlocks(r, webhookUrl) ==
    [kind |-> "analysis",
     totalFeedback |-> r.totalFeedback,
     negative |-> ObjGet(r.bySentiment, "negative"),
     p0 |-> ObjGet(r.byPriority, "P0"),
     p1 |-> ObjGet(r.byPriority, "P1"),
     topIssues |-> Slice(r.topIssues, ShownCap),
     recommendedActions |-> Slice(r.recommendedActions, ShownCap),
     urgentSection |-> Len(r.urgentItems) > 0,
     urgentCount |-> Len(r.urgentItems),
     urgentItems |-> UrgentLines(Slice(r.urgentItems, ShownCap)),
     dashboard |-> ParseURL(webhookUrl).origin \o "/dashboard"]

\* the blocks built by sendToSlack of the scheduled handler
ScheduledBlocks(r, data) ==
    [kind |-> "analysis",
     totalFeedback |-> r.totalFeedback,
     negative |-> ObjGet(r.bySentiment, "negative"),
     p0 |-> ObjGet(r.byPriority, "P0"),
     p1 |-> ObjGet(r.byPriority, "P1"),
     topIssues |-> Slice(r.topIssues, ShownCap),
     recommendedActions |-> r.recommendedActions,
     urgentSection |-> r.urgentCount > 0,
     urgentCount |-> r.urgentCount,
     urgentItems |->
        IF r.urgentCount > 0
        THEN UrgentLines(Slice(SelectSeq(data,
                 LAMBDA item : item.priority = "P0" \/ item.priority = "P1"),
                 ShownCap))
        ELSE <<>>,
     dashboard |-> "https://your-domain.com/dashboard"]

\* the blocks built by notifyError
ErrorBlocks == [kind |-> "error"]

\* JSON.stringify of an analysis result
JSONStringify(r) == [json |-> r]

\* the row bound to INSERT INTO analysis_logs
LogRow(r) ==
    [timestamp |-> NowT,
     total_feedback |-> r.totalFeedback,
     negative_count |-> ObjGet(r.bySentiment, "negative"),
     p0_count |-> ObjGet(r.byPriority, "P0"),
     p1_count |-> ObjGet(r.byPriority, "P1"),
     data |-> JSONStringify(r)]

-----------------------------------------------------------------------------
(* The daily run *)

\* a run that writes the log entry before it sends the notification
WorkflowStepsLogFirst ==
    << "fetch-feedback", "analyze-with-ai", "generate-insights",
       "log-analysis", "send-to-slack" >>

\* the step.do calls of DailyAnalysisWorkflow.run, in program order
WorkflowSteps ==
    << "fetch-feedback", "analyze-with-ai", "generate-insights",
       "send-to-slack", "log-analysis" >>

\* the calls of handleScheduled, in program order
ScheduledSteps == << "fetch", "analyzeFeedback", "sendToSlack", "logAnalysis" >>

Steps(e) == IF e = "workflow" THEN WorkflowSteps ELSE ScheduledSteps

WebhookUrls ==
    { NULL, "https://hooks.slack.com/services/T0/B0/x",
      "https://example.com/hook", "hooks.slack.com/services/T0" }

Envs == [AI : BOOLEAN, SLACK_WEBHOOK_URL : WebhookUrls]

\* outcomes of fetch(webhookUrl, ...) once the request is made
FetchOutcomes == {"ok", "non_ok", "throw"}

NoResult == [totalFeedback |-> NaN]

AtStep(e, name) ==
    /\ status = "running"
    /\ entry = e
    /\ pc <= Len(Steps(e))
    /\ Steps(e)[pc] = name

\* the step returned: go on to the next one, or finish
Advance(name) ==
    /\ pc' = pc + 1
    /\ status' = IF pc + 1 > Len(Steps(entry)) THEN "done" ELSE "running"
    /\ trace' = Append(trace, name)

\* WHERE datetime(created_at) >= datetime(?yesterday)
InWindow(row) == row.created_at.valid /\ row.created_at.t >= NowT - OneDay

\* ORDER BY created_at DESC: every order of the selected rows that is
\* non-increasing in created_at (SQL leaves the order of ties open)
fetchRecentFeedback(db) ==
    LET sel == {i \in 1..Len(db) : InWindow(db[i])}
        n == Cardinality(sel)
        orders == {f \in [1..n -> sel] :
                     /\ \A j, k \in 1..n : j # k => f[j] # f[k]
                     /\ \A j, k \in 1..n :
                          j < k => db[f[j]].created_at.t >= db[f[k]].created_at.t}
    IN {[j \in 1..n |-> db[f[j]]] : f \in orders}

RunInit ==
    /\ env \in Envs
    /\ feedback_db = <<>>
    /\ analysis_logs = <<>>
    /\ entry = "none"
    /\ status = "idle"
    /\ pc = 0
    /\ fetchOutcome = "pending"
    /\ feedbackData = <<>>
    /\ analysis = NoResult
    /\ insights = NoResult
    /\ slackResult = "pending"
    /\ slackCalls = <<>>
    /\ logCalls = <<>>
    /\ trace = <<>>
    /\ deliveredResult = NoResult

\* a row is stored before the run (the INSERT of POST /ingest)
StoreInsert(row) ==
    /\ status = "idle"
    /\ Len(feedback_db) < MaxFeedback
    /\ feedback_db' = Append(feedback_db, row)
    /\ UNCHANGED <<env, analysis_logs, entry, status, pc, fetchOutcome, feedbackData, analysis,
                   insights, slackResult, slackCalls, logCalls, trace,
                   deliveredResult>>
    /\ UNCHANGED <<aggVars, clsVars, trgVars, fnVars>>

\* the cron trigger starts DailyAnalysisWorkflow.run or handleScheduled
Start(e) ==
    /\ status = "idle"
    /\ entry' = e
    /\ status' = "running"
    /\ pc' = 1
    /\ UNCHANGED <<env, feedback_db, analysis_logs, fetchOutcome, feedbackData, analysis,
                   insights, slackResult, slackCalls, logCalls, trace,
                   deliveredResult>>
    /\ UNCHANGED <<aggVars, clsVars, trgVars, fnVars>>

\* step "fetch-feedback"; a throwing step fails the workflow instance
WfFetch ==
    /\ AtStep("workflow", "fetch-feedback")
    /\ \/ /\ \E rows \in fetchRecentFeedback(feedback_db) : feedbackData' = rows
          /\ fetchOutcome' = "ok"
          /\ Advance("fetch-feedback")
       \/ /\ fetchOutcome' = "throw"                   \* the query throws
          /\ status' = "errored"
          /\ trace' = Append(trace, "fetch-feedback")
          /\ UNCHANGED <<pc, feedbackData>>
    /\ UNCHANGED <<env, feedback_db, analysis_logs, entry, analysis, insights,
                   slackResult, slackCalls, logCalls, deliveredResult>>
    /\ UNCHANGED <<aggVars, clsVars, trgVars, fnVars>>

\* step "analyze-with-ai"
WfAnalyze ==
    /\ AtStep("workflow", "analyze-with-ai")
    /\ \E ai \in AiReplies : analysis' = analyzeWithAI(feedbackData, env.AI, ai)
    /\ Advance("analyze-with-ai")
    /\ UNCHANGED <<env, feedback_db, analysis_logs, entry, fetchOutcome, feedbackData, insights,
                   slackResult, slackCalls, logCalls, deliveredResult>>
    /\ UNCHANGED <<aggVars, clsVars, trgVars, fnVars>>

\* step "generate-insights"
WfGenerateInsights ==
    /\ AtStep("workflow", "generate-insights")
    /\ insights' = generateInsights(analysis)
    /\ Advance("generate-insights")
    /\ UNCHANGED <<env, feedback_db, analysis_logs, entry, fetchOutcome, feedbackData, analysis,
                   slackResult, slackCalls, logCalls, deliveredResult>>
    /\ UNCHANGED <<aggVars, clsVars, trgVars, fnVars>>

\* step "send-to-slack": DailyAnalysisWorkflow.sendToSlack
WfSendToSlack ==
    /\ AtStep("workflow", "send-to-slack")
    /\ deliveredResult' = insights
    /\ \/ /\ Falsy(env.SLACK_WEBHOOK_URL)
          /\ slackResult' = "not_configured"
          /\ Advance("send-to-slack")
          /\ UNCHANGED slackCalls
       \/ /\ ~Falsy(env.SLACK_WEBHOOK_URL)
          /\ ~ParseURL(env.SLACK_WEBHOOK_URL).ok      \* new URL(...) throws
          /\ slackResult' = "url_error"
          /\ status' = "errored"
          /\ trace' = Append(trace, "send-to-slack")
          /\ UNCHANGED <<pc, slackCalls>>
       \/ /\ ~Falsy(env.SLACK_WEBHOOK_URL)
          /\ ParseURL(env.SLACK_WEBHOOK_URL).ok
          /\ \E net \in FetchOutcomes : slackResult' = net
          /\ slackCalls' = Append(slackCalls,
                [url |-> env.SLACK_WEBHOOK_URL,
                 blocks |-> WorkflowBlocks(insights, env.SLACK_WEBHOOK_URL)])
          /\ Advance("send-to-slack")
    /\ UNCHANGED <<env, feedback_db, analysis_logs, entry, fetchOutcome, feedbackData, analysis,
                   insights, logCalls>>
    /\ UNCHANGED <<aggVars, clsVars, trgVars, fnVars>>

\* step "log-analysis": DailyAnalysisWorkflow.logAnalysis
WfLogAnalysis ==
    /\ AtStep("workflow", "log-analysis")
    /\ logCalls' = Append(logCalls, LogRow(insights))
    /\ \/ analysis_logs' = Append(analysis_logs, LogRow(insights))
       \/ UNCHANGED analysis_logs                     \* the INSERT throws
    /\ Advance("log-analysis")
    /\ UNCHANGED <<env, feedback_db, entry, fetchOutcome, feedbackData, analysis, insights,
                   slackResult, slackCalls, deliveredResult>>
    /\ UNCHANGED <<aggVars, clsVars, trgVars, fnVars>>

\* handleScheduled: the query, the early return and the catch block
ShFetch ==
    /\ AtStep("scheduled", "fetch")
    /\ \/ /\ \E rows \in fetchRecentFeedback(feedback_db) :
                /\ feedbackData' = rows
                /\ rows # <<>>
          /\ fetchOutcome' = "ok"
          /\ Advance("fetch")
          /\ UNCHANGED slackCalls
       \/ /\ <<>> \in fetchRecentFeedback(feedback_db)
          /\ feedbackData' = <<>>
          /\ fetchOutcome' = "ok"
          /\ status' = "done"                          \* return
          /\ trace' = Append(trace, "fetch")
          /\ UNCHANGED <<pc, slackCalls>>
       \/ /\ fetchOutcome' = "throw"                   \* the query throws
          /\ status' = "done"
          /\ trace' = Append(trace, "fetch")
          /\ slackCalls' =
                IF ~Falsy(env.SLACK_WEBHOOK_URL) /\ ParseURL(env.SLACK_WEBHOOK_URL).ok
                THEN Append(slackCalls, [url |-> env.SLACK_WEBHOOK_URL,
                                         blocks |-> ErrorBlocks])
                ELSE slackCalls
          /\ UNCHANGED <<pc, feedbackData>>
    /\ UNCHANGED <<env, feedback_db, analysis_logs, entry, analysis, insights,
                   slackResult, logCalls, deliveredResult>>
    /\ UNCHANGED <<aggVars, clsVars, trgVars, fnVars>>

\* handleScheduled: analyzeFeedback
ShAnalyze ==
    /\ AtStep("scheduled", "analyzeFeedback")
    /\ \E ai \in AiReplies : analysis' = analyzeFeedback(feedbackData, env.AI, ai)
    /\ Advance("analyzeFeedback")
    /\ UNCHANGED <<env, feedback_db, analysis_logs, entry, fetchOutcome, feedbackData, insights,
                   slackResult, slackCalls, logCalls, deliveredResult>>
    /\ UNCHANGED <<aggVars, clsVars, trgVars, fnVars>>

\* handleScheduled: if (env.SLACK_WEBHOOK_URL) await sendToSlack(...)
ShSendToSlack ==
    /\ AtStep("scheduled", "sendToSlack")
    /\ deliveredResult' = analysis
    /\ pc' = pc + 1
    /\ status' = "running"
    /\ \/ /\ Falsy(env.SLACK_WEBHOOK_URL)
          /\ slackResult' = "not_configured"
          /\ UNCHANGED <<slackCalls, trace>>
       \/ /\ ~Falsy(env.SLACK_WEBHOOK_URL)
          /\ ~ParseURL(env.SLACK_WEBHOOK_URL).ok      \* fetch rejects, caught
          /\ slackResult' = "throw"
          /\ trace' = Append(trace, "sendToSlack")
          /\ UNCHANGED slackCalls
       \/ /\ ~Falsy(env.SLACK_WEBHOOK_URL)
          /\ ParseURL(env.SLACK_WEBHOOK_URL).ok
          /\ \E net \in FetchOutcomes : slackResult' = net
          /\ slackCalls' = Append(slackCalls,
                [url |-> env.SLACK_WEBHOOK_URL,
                 blocks |-> ScheduledBlocks(analysis, feedbackData)])
          /\ trace' = Append(trace, "sendToSlack")
    /\ UNCHANGED <<env, feedback_db, analysis_logs, entry, fetchOutcome, feedbackData, analysis,
                   insights, logCalls>>
    /\ UNCHANGED <<aggVars, clsVars, trgVars, fnVars>>

\* handleScheduled: logAnalysis
ShLogAnalysis ==
    /\ AtStep("scheduled", "logAnalysis")
    /\ logCalls' = Append(logCalls, LogRow(analysis))
    /\ \/ analysis_logs' = Append(analysis_logs, LogRow(analysis))
       \/ UNCHANGED analysis_logs                     \* the INSERT throws
    /\ Advance("logAnalysis")
    /\ UNCHANGED <<env, feedback_db, entry, fetchOutcome, feedbackData, analysis, insights,
                   slackResult, slackCalls, deliveredResult>>
    /\ UNCHANGED <<aggVars, clsVars, trgVars, fnVars>>

RunIdle ==
    /\ env = [AI |-> FALSE, SLACK_WEBHOOK_URL |-> NULL]
    /\ feedback_db = <<>>
    /\ analysis_logs = <<>>
    /\ entry = "none"
    /\ status = "idle"
    /\ pc = 0
    /\ fetchOutcome = "pending"
    /\ feedbackData = <<>>
    /\ analysis = NoResult
    /\ insights = NoResult
    /\ slackResult = "pending"
    /\ slackCalls = <<>>
    /\ logCalls = <<>>
    /\ trace = <<>>
    /\ deliveredResult = NoResult

-----------------------------------------------------------------------------
(* The aggregation functions applied to lists of rows *)

ProductCategories ==
    {"bug", "performance", "feature_request", "docs", "ux", "security", "billing"}

StatsLimit == 1000

\* rows the aggregation functions are applied to
AggPool ==
    { Row("github", "App crashes on login", "negative", "P0", "bug",
          "App crashes on login", IsoDate(NowT - SevenDays + 1)),
      Row("email", "hm", NULL, "P1", NULL, NULL, IsoDate(NowT - SevenDays)),
      Row("twitter", "Great", "positive", NULL, "__proto__", "Great", BadDate),
      Row("forum", "Menu hard to find", "neutral", "P3", "ux",
          "App crashes on login", IsoDate(NowT)) }

RECURSIVE SeqsUpTo(_, _)
SeqsUpTo(S, n) ==
    IF n = 0 THEN {<<>>}
    ELSE LET shorter == SeqsUpTo(S, n - 1)
         IN shorter \cup {Append(s, x) : s \in {t \in shorter : Len(t) = n - 1}, x \in S}

\* datetime(created_at), NULL (smallest) for text that is no date
SqlDatetime(row) == IF row.created_at.valid THEN row.created_at.t ELSE NaN

\* ORDER BY datetime(created_at) DESC, ties in insertion order
RECURSIVE InsertByDate(_, _)
InsertByDate(sorted, x) ==
    IF sorted = <<>> THEN <<x>>
    ELSE IF SqlDatetime(Head(sorted)) >= SqlDatetime(x)
         THEN <<Head(sorted)>> \o InsertByDate(Tail(sorted), x)
         ELSE <<x>> \o sorted

RECURSIVE OrderByDateDesc(_)
OrderByDateDesc(s) ==
    IF s = <<>> THEN <<>>
    ELSE InsertByDate(OrderByDateDesc(SubSeq(s, 1, Len(s) - 1)), s[Len(s)])

\* listFeedback(env, { limit: 1000, productOnly })
listFeedback(db, productOnly) ==
    LET kept == SelectSeq(db, LAMBDA row :
                    ~productOnly \/ row.category \in ProductCategories)
    IN Slice(OrderByDateDesc(kept), StatsLimit)

\* one iteration of allFeedback.forEach in GET /api/stats
StatsItem(acc, fb) ==
    [byPriority  |-> ObjInc(acc.byPriority, Or(fb.priority, "unknown")),
     bySentiment |-> ObjInc(acc.bySentiment, Or(fb.sentiment, "unknown")),
     byCategory  |-> ObjInc(acc.byCategory, Or(fb.category, "other")),
     last7Days   |-> IF JSGreater(DateGetTime(fb.created_at), NowT - SevenDays)
                     THEN acc.last7Days + 1 ELSE acc.last7Days]

RECURSIVE StatsAll(_)
StatsAll(all) ==
    IF all = <<>>
    THEN [byPriority |-> EmptyObj, bySentiment |-> EmptyObj,
          byCategory |-> EmptyObj, last7Days |-> 0]
    ELSE StatsItem(StatsAll(SubSeq(all, 1, Len(all) - 1)), all[Len(all)])

\* the characters of [a-z], and those of \w that are left after toLowerCase
Letters == {SubSeq(LowerCase, i, i) : i \in 1..Len(LowerCase)}
WordChars == Letters \cup {"0", "1", "2", "3", "4", "5", "6", "7", "8", "9", "_"}

MinWordLength == 3
TopWordsCap == 50

\* a maximal run of \w characters matches \b[a-z]{3,}\b when it is made of
\* letters only and has at least 3 of them
RunMatch(run, letters) ==
    IF letters /\ Len(run) >= MinWordLength THEN <<run>> ELSE <<>>

\* text.match(/\b[a-z]{3,}\b/g) || []
RECURSIVE MatchFrom(_, _, _, _)
MatchFrom(text, i, run, letters) ==
    IF i > Len(text) THEN RunMatch(run, letters)
    ELSE LET c == SubSeq(text, i, i)
         IN IF c \in Letters THEN MatchFrom(text, i + 1, run \o c, letters)
            ELSE IF c \in WordChars THEN MatchFrom(text, i + 1, run \o c, FALSE)
            ELSE RunMatch(run, letters) \o MatchFrom(text, i + 1, "", TRUE)

MatchWords(text) == MatchFrom(text, 1, "", TRUE)

Stopwords ==
    {"the", "and", "for", "with", "that", "this", "from", "are", "but", "can",
     "has", "have", "been", "one", "like", "when", "where", "what", "which",
     "who", "why", "how"}

\* the words one record adds to wordFreq, in order
RecordWords(fb) ==
    LET text == ToLowerCase(Or(fb.summary, Or(fb.raw_text, "")))
    IN SelectSeq(MatchWords(text), LAMBDA word : word \notin Stopwords)

\* position of word in the Map wordFreq (entries in insertion order), or 0
WordIndex(freq, word) ==
    IF \E i \in 1..Len(freq) : freq[i].word = word
    THEN CHOOSE i \in 1..Len(freq) : freq[i].word = word
    ELSE 0

\* wordFreq.set(word, (wordFreq.get(word) || 0) + 1)
WordFreqSet(freq, word) ==
    LET i == WordIndex(freq, word)
    IN IF i = 0 THEN Append(freq, [word |-> word, count |-> 1])
       ELSE [freq EXCEPT ![i].count = @ + 1]

RECURSIVE CountWords(_, _)
CountWords(freq, words) ==
    IF freq = <<>> /\ words = <<>> THEN <<>>
    ELSE IF words = <<>> THEN freq
    ELSE WordFreqSet(CountWords(freq, SubSeq(words, 1, Len(words) - 1)),
                     words[Len(words)])

\* wordFreq after allFeedback.forEach
RECURSIVE WordFreq(_)
WordFreq(all) ==
    IF all = <<>> THEN <<>>
    ELSE CountWords(WordFreq(SubSeq(all, 1, Len(all) - 1)),
                    RecordWords(all[Len(all)]))

\* Array.from(wordFreq).map(...).sort((a, b) => b.count - a.count).slice(0, 50)
topWords(all) == Slice(SortByCountDesc(WordFreq(all)), TopWordsCap)

\* the statistics of GET /api/stats
apiStats(allFeedback) ==
    LET acc == StatsAll(allFeedback)
    IN [total |-> Len(allFeedback),
        byPriority |-> acc.byPriority,
        bySentiment |-> acc.bySentiment,
        byCategory |-> acc.byCategory,
        last7Days |-> acc.last7Days,
        topWords |-> topWords(allFeedback)]

NoBlocks == [kind |-> "none"]

AggInit ==
    /\ aggRecords \in SeqsUpTo(AggPool, MaxRecords)
    /\ aggOp = "none"
    /\ aggInput = <<>>
    /\ aggResult = NoResult
    /\ aggBlocks = NoBlocks

\* rows for the keyword ranking: together more than TopWordsCap distinct
\* words, words seen twice, stopwords, short and non-alphabetic tokens
WordsPool ==
    { Row("github", "x", NULL, "P1", "bug",
          "The app2 crashes; login fails and the APP crashes, UI_x ok",
          IsoDate(NowT)),
      Row("forum", "bag bam ban beg bem ben big bim bin bog bom bon bug ban", "neutral", "P3", "docs",
          NULL, IsoDate(NowT)),
      Row("forum", "x", "neutral", "P3", "docs",
          "bum bun cag cam ceg cem cen cig cim cin cog com con cag", IsoDate(NowT)),
      Row("forum", "x", "neutral", "P3", "docs",
          "cug cum cun dag dam dan deg dem den dig dim din dog cun", IsoDate(NowT)),
      Row("email", "x", "neutral", "P3", "ux",
          "dom don dug dum dun fag fam fan feg fem fen fig fim dug", IsoDate(NowT)) }

WordsInit ==
    /\ aggRecords \in SeqsUpTo(WordsPool, MaxWordRecords)
    /\ aggOp = "none"
    /\ aggInput = <<>>
    /\ aggResult = NoResult
    /\ aggBlocks = NoBlocks

AggIdle ==
    /\ aggRecords = <<>>
    /\ aggOp = "none"
    /\ aggInput = <<>>
    /\ aggResult = NoResult
    /\ aggBlocks = NoBlocks

\* GET /api/stats?product_only=...
ApiStats(productOnly) ==
    /\ aggOp = "none"
    /\ aggOp' = "stats"
    /\ aggInput' = listFeedback(aggRecords, productOnly)
    /\ aggResult' = apiStats(aggInput')
    /\ aggBlocks' = NoBlocks
    /\ UNCHANGED <<aggRecords, runVars, clsVars, trgVars, fnVars>>

\* analyzeWithAI, generateInsights and the message of the workflow
WorkflowAnalysis(hasAI, ai) ==
    /\ aggOp = "none"
    /\ aggOp' = "workflow"
    /\ aggInput' = aggRecords
    /\ aggResult' = generateInsights(analyzeWithAI(aggRecords, hasAI, ai))
    /\ aggBlocks' = WorkflowBlocks(aggResult', "https://hooks.slack.com/services/T0/B0/x")
    /\ UNCHANGED <<aggRecords, runVars, clsVars, trgVars, fnVars>>

\* analyzeFeedback and the message of the scheduled handler
ScheduledAnalysis(hasAI, ai) ==
    /\ aggOp = "none"
    /\ Len(aggRecords) > 0
    /\ aggOp' = "scheduled"
    /\ aggInput' = aggRecords
    /\ aggResult' = analyzeFeedback(aggRecords, hasAI, ai)
    /\ aggBlocks' = ScheduledBlocks(aggResult', aggRecords)
    /\ UNCHANGED <<aggRecords, runVars, clsVars, trgVars, fnVars>>

AggReplies == {AiThrows, AiValue("Sure:\n1. a\n2. b\n3. c\n4. d")}

-----------------------------------------------------------------------------
(* The classifier and POST /ingest *)

PRIORITIES == {"P0", "P1", "P2", "P3"}
SENTIMENTS == {"negative", "neutral", "positive"}

\* JavaScript values of any type: v is the image under String(...)
Str(s) == [t |-> "string", v |-> s]
Num(s) == [t |-> "number", v |-> s]
Undefined == [t |-> "undefined", v |-> "undefined"]
Null == [t |-> "null", v |-> "null"]

\* the classifier's value first, the caller's only when it has none
CoalesceSecondFirst(a, b) == IF b.t \in {"undefined", "null"} THEN a ELSE b

\* a ?? b
Coalesce(a, b) == IF a.t \in {"undefined", "null"} THEN b ELSE a

\* a validation that trims and lower-cases the value before it matches it
sanitizeChoiceCoerced(value, allowed) ==
    IF value.t # "string" THEN NULL
    ELSE IF value.v \in allowed THEN value.v
    ELSE IF ToLowerCase(Trim(value.v)) \in allowed THEN ToLowerCase(Trim(value.v))
    ELSE NULL

\* sanitizeChoice(value, allowed): NULL for null
sanitizeChoice(value, allowed) ==
    IF value.t # "string" THEN NULL
    ELSE IF value.v \in allowed THEN value.v ELSE NULL

\* sanitizeNullable(value)
sanitizeNullable(value) ==
    IF value.t \in {"undefined", "null"} THEN NULL
    ELSE LET str == Trim(value.v)
         IN IF Len(str) > 0 THEN str ELSE NULL

SummaryLength == 120

\* String.prototype.slice(0, n)
StrSlice(s, n) == SubSeq(s, 1, Min(n, Len(s)))

\* mockAiInference(text)
mockAiInference(text) ==
    LET lowerText == ToLowerCase(text)
        has(w) == Includes(lowerText, w)
        negativeWords == {"crash", "fail", "error", "bug", "slow", "break",
                          "issue", "problem", "broken"}
        positiveWords == {"great", "awesome", "love", "excellent", "nice", "good"}
        sentiment ==
            IF \E w \in negativeWords : has(w) THEN "negative"
            ELSE IF \E w \in positiveWords : has(w) THEN "positive"
            ELSE "neutral"
        first ==
            IF has("outage") \/ has("down") \/ has("data loss") \/ has("security")
            THEN [priority |-> "P0",
                  category |-> IF has("security") THEN "security" ELSE "bug"]
            ELSE IF has("crash") \/ has("blocked") \/ has("blocks all")
            THEN [priority |-> "P1", category |-> "bug"]
            ELSE IF has("slow")
            THEN [priority |-> "P1", category |-> "performance"]
            ELSE IF has("feature") \/ has("request") \/ has("like to")
            THEN [priority |-> "P3", category |-> "feature_request"]
            ELSE [priority |-> "P3", category |-> "other"]
        c1 == IF has("perform") THEN "performance" ELSE first.category
        c2 == IF has("doc") THEN "docs" ELSE c1
        c3 == IF has("billing") \/ has("payment") THEN "billing" ELSE c2
        category == IF has("ui") \/ has("ux") THEN "ux" ELSE c3
    IN [sentiment |-> Str(sentiment),
        priority |-> Str(first.priority),
        category |-> Str(category),
        summary |-> Str(StrSlice(text, SummaryLength)),
        priority_reason |-> Str(first.priority \o " priority due to " \o sentiment
                                \o " sentiment and " \o category \o " issue"),
        reason |-> Undefined]

\* The text returned by the model, as a sequence of tokens: an opening or a
\* closing brace, a member "key": value of an object, or any other text.
LB == [tok |-> "{", key |-> "", val |-> Undefined]
RB == [tok |-> "}", key |-> "", val |-> Undefined]
Prose == [tok |-> "text", key |-> "", val |-> Undefined]
Member(k, v) == [tok |-> "member", key |-> k, val |-> v]

LabelKeys ==
    {"sentiment", "priority", "category", "summary", "priority_reason", "reason"}

NoLabels == [k \in LabelKeys |-> Undefined]

\* trimmed.indexOf("{"), 0 when absent
FirstIndex(text, t) ==
    IF \E i \in 1..Len(text) : text[i] = t
    THEN CHOOSE i \in 1..Len(text) :
            text[i] = t /\ \A j \in 1..(i - 1) : text[j] # t
    ELSE 0

\* trimmed.lastIndexOf("}"), 0 when absent
LastIndex(text, t) ==
    IF \E i \in 1..Len(text) : text[i] = t
    THEN CHOOSE i \in 1..Len(text) :
            text[i] = t /\ \A j \in (i + 1)..Len(text) : text[j] # t
    ELSE 0

\* JSON.parse of "{" members "}": the object, a later member of a key
\* replacing an earlier one
RECURSIVE ObjectOf(_)
ObjectOf(members) ==
    IF members = <<>> THEN NoLabels
    ELSE LET m == members[Len(members)]
             rest == ObjectOf(SubSeq(members, 1, Len(members) - 1))
         IN IF m.key \in LabelKeys THEN [rest EXCEPT ![m.key] = m.val] ELSE rest

\* safeParseAiJson(text): ok = FALSE for null
safeParseAiJson(text) ==
    LET start == FirstIndex(text, LB)
        end == LastIndex(text, RB)
        inner == SubSeq(text, start + 1, end - 1)
    IN IF start = 0 \/ end = 0 \/ end <= start
       THEN [ok |-> FALSE, labels |-> NoLabels]
       ELSE IF \A i \in 1..Len(inner) : inner[i].tok = "member"
            THEN [ok |-> TRUE, labels |-> ObjectOf(inner)]
            ELSE [ok |-> FALSE, labels |-> NoLabels]     \* JSON.parse throws

\* What ai.run does: it throws, or returns a value that is null, a string,
\* or an object holding the text under one key.
AiRunThrows == [kind |-> "throw", key |-> "", text |-> <<>>]
AiRunNull == [kind |-> "null", key |-> "", text |-> <<>>]
AiRunString(text) == [kind |-> "string", key |-> "", text |-> text]
AiRunObject(k, text) == [kind |-> "object", key |-> k, text |-> text]

\* pickAiText(response): ok = FALSE for null
pickAiText(response) ==
    IF response.kind = "null" THEN [ok |-> FALSE, text |-> <<>>]
    ELSE IF response.kind = "string" THEN [ok |-> TRUE, text |-> response.text]
    ELSE IF /\ response.key \in {"response", "result", "text", "output", "content"}
            /\ Len(response.text) > 0
         THEN [ok |-> TRUE, text |-> response.text]
         ELSE [ok |-> FALSE, text |-> <<>>]

Returned(labels) == [outcome |-> "labels", labels |-> labels]
ReturnedNull == [outcome |-> "null", labels |-> NoLabels]
Threw == [outcome |-> "threw", labels |-> NoLabels]
NotCalled == [outcome |-> "none", labels |-> NoLabels]

\* a classifier that lets the error of the inference call escape
inferFeedbackMetadataUncaught(e, text, reply, ctorThrows) ==
    IF ~e.AI /\ Falsy(e.USE_MOCK_AI) THEN ReturnedNull
    ELSE IF text = "" THEN ReturnedNull
    ELSE IF e.USE_MOCK_AI = "true" THEN Returned(mockAiInference(text))
    ELSE IF ~e.AI /\ ctorThrows THEN Threw
    ELSE IF ~e.AI THEN Threw
    ELSE IF reply.kind = "throw" THEN Threw
    ELSE LET picked == pickAiText(reply)
             parsed == safeParseAiJson(picked.text)
         IN IF ~picked.ok \/ Len(picked.text) = 0 THEN ReturnedNull
            ELSE IF ~parsed.ok THEN ReturnedNull
            ELSE Returned(parsed.labels)

\* inferFeedbackMetadata(env, { source, text }).  ctorThrows: whether the
\* constructor of the imported class Ai throws when given no binding.
inferFeedbackMetadata(e, text, reply, ctorThrows) ==
    IF ~e.AI /\ Falsy(e.USE_MOCK_AI) THEN ReturnedNull
    ELSE IF text = "" THEN ReturnedNull
    ELSE IF e.USE_MOCK_AI = "true" THEN Returned(mockAiInference(text))
    ELSE IF ~e.AI /\ ctorThrows THEN Threw          \* new Ai(undefined)
    ELSE IF ~e.AI THEN ReturnedNull                 \* ai.run throws, caught
    ELSE IF reply.kind = "throw" THEN ReturnedNull  \* caught
    ELSE LET picked == pickAiText(reply)
             parsed == safeParseAiJson(picked.text)
         IN IF ~picked.ok \/ Len(picked.text) = 0 THEN ReturnedNull
            ELSE IF ~parsed.ok THEN ReturnedNull
            ELSE Returned(parsed.labels)

ClassifyTexts ==
    { "App is down, can't log in, losing money",
      "Security hole: data loss",
      "Total outage since the payment update",
      "App crashes on login",
      "Love the new UI design!",
      "Dashboard is too slow",
      "Would like to export reports",
      "" }

FullReply ==
    << LB, Member("sentiment", Str("negative")), Member("priority", Str("P1")),
       Member("category", Str("bug")), Member("summary", Str("Login broken")),
       Member("priority_reason", Str("Blocks all users")), RB >>

VariantReply ==
    << Prose, LB, Member("sentiment", Str("Negative")),
       Member("priority", Str(" P0")), Member("category", Num("5")), RB, Prose >>

ClassifyReplies ==
    { AiRunThrows, AiRunNull, AiRunString(FullReply),
      AiRunObject("response", VariantReply), AiRunObject("response", <<Prose>>),
      AiRunObject("usage", FullReply) }

\* a payload without override fields
NoOverrides ==
    [sentiment |-> Undefined, priority |-> Undefined, category |-> Undefined,
     summary |-> Undefined, priority_reason |-> Undefined,
     created_at |-> Undefined]

\* values a caller may send for a field
\* a summary of 141 characters
LongSummary ==
    "The export to CSV stops after the first page of results and the file "
        \o "that is downloaded has no header row, which breaks our weekly import job"

OverrideValues ==
    [sentiment |-> {Str("positive"), Str("POSITIVE"), Str("positive "), Null,
                    Str("P2"), Num("0")},
     priority |-> {Str("P2"), Str("p2"), Str(" P2"), Null},
     category |-> {Str("billing"), Str(" UX "), Str(""), Num("5"), Null},
     summary |-> {Str("Login broken for all"), Str(" Cannot pay "), Str("  "), Null,
                  Str(LongSummary)},
     priority_reason |-> {Str("Paying customer"), Str(""), Null},
     created_at |-> {Str("2026-01-05T08:00:00.000Z"), Str("yesterday"),
                     Str("  "), Null}]

\* the override fields of a payload: none, one field, or all of them
Overrides ==
    {NoOverrides}
    \cup UNION {{[NoOverrides EXCEPT ![f] = v] : v \in OverrideValues[f]} :
                  f \in DOMAIN OverrideValues}
    \cup {[sentiment |-> Str("positive"), priority |-> Str("P2"),
           category |-> Str("billing"), summary |-> Str("Login broken for all"),
           priority_reason |-> Str("Paying customer"),
           created_at |-> Str("2026-01-05T08:00:00.000Z")]}

Payload(text, o) ==
    [source |-> Str("github"), raw_text |-> Str(text),
     sentiment |-> o.sentiment, priority |-> o.priority, category |-> o.category,
     summary |-> o.summary, priority_reason |-> o.priority_reason,
     created_at |-> o.created_at]

\* every text without overrides, and every override with one text
Payloads ==
    {Payload(t, NoOverrides) : t \in ClassifyTexts}
    \cup {Payload("App crashes on login", o) : o \in Overrides}

ClsEnvs == [AI : BOOLEAN, USE_MOCK_AI : {NULL, "", "true", "false"}]

\* String(value ?? "")
StringOrEmpty(value) == IF value.t \in {"undefined", "null"} THEN "" ELSE value.v

NoRow ==
    [source |-> "", raw_text |-> "", sentiment |-> NULL, priority |-> NULL,
     category |-> NULL, summary |-> NULL, priority_reason |-> NULL,
     created_at |-> ""]

NowIso == "2026-01-10T00:00:00.000Z"

ClsInit ==
    /\ clsEnv \in ClsEnvs
    /\ clsReq = [payload |-> [source |-> Undefined, raw_text |-> Undefined,
                              sentiment |-> Undefined, priority |-> Undefined,
                              category |-> Undefined, summary |-> Undefined,
                              priority_reason |-> Undefined,
                              created_at |-> Undefined],
                 reply |-> AiRunNull, ctorThrows |-> FALSE,
                 insertThrows |-> FALSE]
    /\ clsLabels = NotCalled
    /\ clsStored = NoRow
    /\ clsInsert = "none"
    /\ clsTable = <<>>
    /\ clsResp = "none"

ClsIdle ==
    /\ clsEnv = [AI |-> FALSE, USE_MOCK_AI |-> NULL]
    /\ clsReq = [payload |-> [source |-> Undefined, raw_text |-> Undefined,
                              sentiment |-> Undefined, priority |-> Undefined,
                              category |-> Undefined, summary |-> Undefined,
                              priority_reason |-> Undefined,
                              created_at |-> Undefined],
                 reply |-> AiRunNull, ctorThrows |-> FALSE,
                 insertThrows |-> FALSE]
    /\ clsLabels = NotCalled
    /\ clsStored = NoRow
    /\ clsInsert = "none"
    /\ clsTable = <<>>
    /\ clsResp = "none"

\* the record POST /ingest builds from the payload and the labels
IngestRecord(payload, source, rawText, aiLabels) ==
    LET summary == sanitizeNullable(Coalesce(payload.summary, aiLabels.summary))
        createdAt == sanitizeNullable(payload.created_at)
    IN [source |-> source,
        raw_text |-> rawText,
        sentiment |->
            sanitizeChoice(Coalesce(payload.sentiment, aiLabels.sentiment), SENTIMENTS),
        priority |->
            sanitizeChoice(Coalesce(payload.priority, aiLabels.priority), PRIORITIES),
        category |-> sanitizeNullable(Coalesce(payload.category, aiLabels.category)),
        summary |-> IF Falsy(summary) THEN StrSlice(rawText, SummaryLength)
                    ELSE summary,
        priority_reason |->
            sanitizeNullable(Coalesce(payload.priority_reason,
                Coalesce(aiLabels.priority_reason, aiLabels.reason))),
        created_at |-> IF createdAt = NULL THEN NowIso ELSE createdAt]

\* POST /ingest with a JSON payload
Ingest(payload, reply, ctorThrows, insertThrows) ==
    /\ clsResp = "none"
    /\ clsReq' = [payload |-> payload, reply |-> reply, ctorThrows |-> ctorThrows,
                  insertThrows |-> insertThrows]
    /\ LET source == Trim(StringOrEmpty(payload.source))
           rawText == Trim(StringOrEmpty(payload.raw_text))
           result == inferFeedbackMetadata(clsEnv, rawText, reply, ctorThrows)
           record == IngestRecord(payload, source, rawText, result.labels)
       IN \/ /\ source = "" \/ rawText = ""          \* 400
             /\ clsResp' = "400"
             /\ clsLabels' = NotCalled
             /\ clsStored' = NoRow
             /\ clsInsert' = "none"
             /\ clsTable' = clsTable
          \/ /\ source # "" /\ rawText # ""
             /\ result.outcome = "threw"             \* the handler throws
             /\ clsResp' = "threw"
             /\ clsLabels' = result
             /\ clsStored' = NoRow
             /\ clsInsert' = "none"
             /\ clsTable' = clsTable
          \/ /\ source # "" /\ rawText # ""
             /\ result.outcome # "threw"
             /\ insertThrows                         \* .run() rejects
             /\ clsResp' = "threw"
             /\ clsLabels' = result
             /\ clsStored' = record
             /\ clsInsert' = "throw"
             /\ clsTable' = clsTable
          \/ /\ source # "" /\ rawText # ""
             /\ result.outcome # "threw"
             /\ ~insertThrows
             /\ clsResp' = "ok"
             /\ clsLabels' = result
             /\ clsStored' = record
             /\ clsInsert' = "ok"
             /\ clsTable' = Append(clsTable, record)
    /\ UNCHANGED <<clsEnv, runVars, aggVars, trgVars, fnVars>>

-----------------------------------------------------------------------------
(* The cron trigger: scheduled(_controller, _env, _ctx) *)

MaxTriggers == 3

MaxHour == 36

\* the clock advances in half days
ClockStep == 12

Digits == "0123456789"

TwoDigits(n) ==
    SubSeq(Digits, (n \div 10) + 1, (n \div 10) + 1)
        \o SubSeq(Digits, (n % 10) + 1, (n % 10) + 1)

\* Date.prototype.toISOString of the instant t hours after 2026-01-10T00:00Z
toISOString(t) ==
    "2026-01-" \o TwoDigits(10 + (t \div 24)) \o "T" \o TwoDigits(t % 24)
        \o ":00:00.000Z"

\* mutant of instanceId: the identifier keeps the hour of the trigger
instanceIdWithHour(t) == "daily-analysis-" \o StrSlice(toISOString(t), 13)

\* const today = new Date().toISOString().slice(0, 10);
\* const instanceId = `daily-analysis-${today}`;
instanceId(t) == "daily-analysis-" \o StrSlice(toISOString(t), 10)

Triggers == 1..MaxTriggers

\* an invocation that has not fired: no locals, no promise
IdleTrigger ==
    [pc |-> "idle", readAt |-> NaN, id |-> NULL, create |-> "none",
     handler |-> "none"]

\* the instance ids the binding holds
InstanceIds == {trgInstances[i] : i \in 1..Len(trgInstances)}

TrgInit ==
    /\ trgBinding \in BOOLEAN
    /\ trgClock = 0
    /\ trgProc = [p \in Triggers |-> IdleTrigger]
    /\ trgInstances = <<>>
    /\ trgWarnings = <<>>

TrgIdle ==
    /\ trgBinding = FALSE
    /\ trgClock = 0
    /\ trgProc = [p \in Triggers |-> IdleTrigger]
    /\ trgInstances = <<>>
    /\ trgWarnings = <<>>

\* time passes between and during invocations
Tick ==
    /\ trgClock + ClockStep <= MaxHour
    /\ trgClock' = trgClock + ClockStep
    /\ UNCHANGED <<trgBinding, trgProc, trgInstances, trgWarnings>>
    /\ UNCHANGED <<runVars, aggVars, clsVars, fnVars>>

\* scheduled, up to the call of create: the early return without a binding,
\* else the identifier from the clock
Scheduled(p) ==
    /\ trgProc[p].pc = "idle"
    /\ \/ /\ ~trgBinding
          /\ trgProc' = [trgProc EXCEPT ![p] =
                 [@ EXCEPT !.pc = "done", !.handler = "ok"]]
       \/ /\ trgBinding
          /\ trgProc' = [trgProc EXCEPT ![p] =
                 [@ EXCEPT !.pc = "creating", !.readAt = trgClock,
                           !.id = instanceId(trgClock)]]
    /\ UNCHANGED <<trgBinding, trgClock, trgInstances, trgWarnings>>
    /\ UNCHANGED <<runVars, aggVars, clsVars, fnVars>>

\* DAILY_ANALYSIS_WORKFLOW.create({ id }).catch(...): the binding rejects an
\* id it already holds, and may reject for a reason of its own (fails); the
\* .catch handler turns a rejection into a warning
Create(p, fails) ==
    /\ trgProc[p].pc = "creating"
    /\ \/ /\ fails \/ trgProc[p].id \in InstanceIds
          /\ trgProc' = [trgProc EXCEPT ![p] =
                 [@ EXCEPT !.pc = "done", !.create = "rejected",
                           !.handler = "ok"]]
          /\ trgWarnings' = Append(trgWarnings,
                 "workflow instance " \o trgProc[p].id \o " not started")
          /\ UNCHANGED trgInstances
       \/ /\ ~fails
          /\ trgProc[p].id \notin InstanceIds
          /\ trgProc' = [trgProc EXCEPT ![p] =
                 [@ EXCEPT !.pc = "done", !.create = "created",
                           !.handler = "ok"]]
          /\ trgInstances' = Append(trgInstances, trgProc[p].id)
          /\ UNCHANGED trgWarnings
    /\ UNCHANGED <<trgBinding, trgClock>>
    /\ UNCHANGED <<runVars, aggVars, clsVars, fnVars>>

-----------------------------------------------------------------------------
(* The narrative of GET /dashboard (aiSummary) *)

MaxDashRows == 2

\* a ?? b ?? ...: the first operand that is neither null nor undefined
RECURSIVE FirstNonNullish(_)
FirstNonNullish(cands) ==
    IF cands = <<>> THEN NULL
    ELSE IF cands[1] # NULL THEN cands[1]
    ELSE FirstNonNullish(Tail(cands))

\* parts.join(sep)
RECURSIVE Join(_, _)
Join(parts, sep) ==
    IF parts = <<>> THEN ""
    ELSE IF Len(parts) = 1 THEN parts[1]
    ELSE parts[1] \o sep \o Join(Tail(parts), sep)

\* outputs.map(output => output?.text).filter(Boolean).join("\n")
JoinTexts(outputs) ==
    Join(SelectSeq([i \in 1..Len(outputs) |-> outputs[i].text],
                   LAMBDA text : ~Falsy(text)), "\n")

\* a value AI.run resolves to: the seven places a text may sit in
AiResponse(hasResult, r1, r2, r3, outs, t1, t2, t3) ==
    [kind |-> "value",
     result |-> [present |-> hasResult, response |-> r1, output_text |-> r2,
                 text |-> r3, outputs |-> outs],
     response |-> t1, output_text |-> t2, text |-> t3]

NoOutputs == [isArray |-> FALSE, items |-> <<>>]

\* AI.run resolves to null
AiResponseNull == [kind |-> "null"]

\* AI.run throws new Error(message)
AiResponseThrows == [kind |-> "throw", message |-> "model unavailable"]

\* response?.result?.f
ResultField(response, f) ==
    IF response.kind = "value" /\ response.result.present
    THEN response.result[f] ELSE NULL

\* response?.f
TopField(response, f) ==
    IF response.kind = "value" THEN response[f] ELSE NULL

\* the candidates of aiText, in the order of the ?? chain
NarrativeCandidates(response) ==
    << ResultField(response, "response"),
       ResultField(response, "output_text"),
       ResultField(response, "text"),
       IF response.kind = "value" /\ response.result.present
          /\ response.result.outputs.isArray
       THEN JoinTexts(response.result.outputs.items) ELSE NULL,
       TopField(response, "response"),
       TopField(response, "output_text"),
       TopField(response, "text") >>

aiText(response) == FirstNonNullish(NarrativeCandidates(response))

UnexpectedFormat == "Summary generated but with unexpected format."

\* the reply built in place of AI.run when USE_MOCK_AI && !env.AI
MockNarrative(stats) ==
    AiResponse(TRUE,
        "Key Findings: overall sentiment is "
            \o (IF ObjGet(stats.bySentiment, "negative") # 0
                THEN "trending negative" ELSE "positive"),
        NULL, NULL, NoOutputs, NULL, NULL, NULL)

\* if (aiText) aiSummary = aiText; else aiSummary = "Summary generated ..."
NarrativeOf(response) ==
    IF ~Falsy(aiText(response)) THEN aiText(response) ELSE UnexpectedFormat

\* the block of GET /dashboard that computes aiSummary; calls counts the
\* calls of env.AI.run
dashboardSummary(e, allFeedback, listThrows, response) ==
    IF listThrows
    THEN [aiSummary |-> "", calls |-> 0]
    ELSE IF ~((e.AI \/ ~Falsy(e.USE_MOCK_AI)) /\ Len(allFeedback) > 0)
    THEN [aiSummary |-> "", calls |-> 0]
    ELSE IF ~Falsy(e.USE_MOCK_AI) /\ ~e.AI
    THEN [aiSummary |-> NarrativeOf(MockNarrative(StatsAll(allFeedback))),
          calls |-> 0]
    ELSE IF response.kind = "throw"
    THEN [aiSummary |-> "Unable to generate AI summary at this time. (Error: "
                            \o StrSlice(response.message, 50) \o ")",
          calls |-> 1]
    ELSE [aiSummary |-> NarrativeOf(response), calls |-> 1]

\* ${aiSummary ? `<div class="ai-summary">...` : ""}
SummarySection(aiSummary) == ~Falsy(aiSummary)

-----------------------------------------------------------------------------
(* Record lists with more summary groups than the top-issues list holds *)

MaxIssueTail == 3

Issue(text, s) == Row("github", text, s, "P2", "bug", text, IsoDate(NowT))

\* five records with five different summaries
IssuePrefix ==
    << Issue("Login fails", "negative"), Issue("Slow search", "neutral"),
       Issue("Export broken", "negative"), Issue("Billing wrong", "negative"),
       Issue("Dark mode", "positive") >>

IssuePool ==
    {IssuePrefix[i] : i \in 1..Len(IssuePrefix)}
        \cup { Issue("Typo in docs", "neutral"),
               Row("email", "hm", NULL, NULL, NULL, NULL, IsoDate(NowT)) }

IssuesInit ==
    /\ \E tail \in SeqsUpTo(IssuePool, MaxIssueTail) :
           aggRecords \in {tail, IssuePrefix \o tail}
    /\ aggOp = "none"
    /\ aggInput = <<>>
    /\ aggResult = NoResult
    /\ aggBlocks = NoBlocks

\* no function applied
FnIdle ==
    /\ fnOp = "none"
    /\ fnArgs = [none |-> TRUE]
    /\ fnResult = [none |-> TRUE]

DashPool ==
    { Row("github", "App crashes on login", "negative", "P0", "bug",
          "App crashes on login", IsoDate(NowT)),
      Row("email", "Great", "positive", NULL, NULL, "Great", IsoDate(NowT)) }

\* what a field of the reply may hold
FieldValues == {NULL, "", "Findings"}

OutputsValues ==
    { NoOutputs,
      [isArray |-> TRUE, items |-> <<>>],
      [isArray |-> TRUE, items |-> <<[text |-> NULL]>>],
      [isArray |-> TRUE, items |-> <<[text |-> "o1"], [text |-> ""],
                                     [text |-> "o2"]>>] }

DashResponses ==
    { AiResponse(TRUE, r1, r2, "", outs, t1, NULL, t3) :
          r1 \in FieldValues, r2 \in FieldValues, outs \in OutputsValues,
          t1 \in FieldValues, t3 \in {NULL, "Tail"} }
    \cup { AiResponse(hasResult, NULL, NULL, r3, outs, NULL, t2, "Tail") :
               hasResult \in BOOLEAN, r3 \in FieldValues,
               outs \in OutputsValues, t2 \in FieldValues }
    \cup { AiResponseNull, AiResponseThrows }

\* the requests of GET /dashboard: every binding with every record list, and
\* every reply for one record list
DashArgs ==
    { [env |-> e, allFeedback |-> rows, listThrows |-> lt,
       response |-> AiResponseThrows] :
          e \in ClsEnvs, rows \in SeqsUpTo(DashPool, MaxDashRows),
          lt \in BOOLEAN }
    \cup { [env |-> [AI |-> TRUE, USE_MOCK_AI |-> m],
            allFeedback |-> <<CHOOSE row \in DashPool : row.source = "github">>,
            listThrows |-> FALSE, response |-> r] :
               m \in {NULL, "true"}, r \in DashResponses }

DashInit ==
    /\ fnOp = "none"
    /\ fnArgs \in DashArgs
    /\ fnResult = [none |-> TRUE]

\* GET /dashboard computes aiSummary
DashboardSummary ==
    /\ fnOp = "none"
    /\ "env" \in DOMAIN fnArgs
    /\ fnOp' = "dashboard"
    /\ fnResult' = dashboardSummary(fnArgs.env, fnArgs.allFeedback,
                                    fnArgs.listThrows, fnArgs.response)
    /\ UNCHANGED fnArgs
    /\ UNCHANGED <<runVars, aggVars, clsVars, trgVars>>

-----------------------------------------------------------------------------
(* safeParseAiJson applied to inference output *)

MaxTokens == 5

ParseTokens ==
    { LB, RB, Prose, Member("sentiment", Str("negative")),
      Member("priority", Str("P1")) }

ParseInit ==
    /\ fnOp = "none"
    /\ fnArgs \in {[text |-> t] : t \in SeqsUpTo(ParseTokens, MaxTokens)}
    /\ fnResult = [none |-> TRUE]

\* safeParseAiJson(text)
ParseAiJson ==
    /\ fnOp = "none"
    /\ "text" \in DOMAIN fnArgs
    /\ fnOp' = "safeParseAiJson"
    /\ fnResult' = safeParseAiJson(fnArgs.text)
    /\ UNCHANGED fnArgs
    /\ UNCHANGED <<runVars, aggVars, clsVars, trgVars>>

-----------------------------------------------------------------------------
(* The cron routing of config.ts: handleScheduledWithRouting, matchesCron *)

\* String.prototype.split(sep), sep non-empty
RECURSIVE Split(_, _)
Split(s, sep) ==
    LET i == IndexOfFrom(s, sep, 1)
    IN IF i = 0 THEN <<s>>
       ELSE <<SubSeq(s, 1, i - 1)>>
                \o Split(SubSeq(s, i + Len(sep), Len(s)), sep)

\* a JavaScript number: NaN, or a natural number
NaNValue == [nan |-> TRUE, n |-> 0]
Number(n) == [nan |-> FALSE, n |-> n]

IsDigit(c) == \E d \in 1..Len(Digits) : SubSeq(Digits, d, d) = c

DigitValue(c) == (CHOOSE d \in 1..Len(Digits) : SubSeq(Digits, d, d) = c) - 1

RECURSIVE DecimalValue(_)
DecimalValue(s) ==
    IF s = "" THEN 0
    ELSE 10 * DecimalValue(SubSeq(s, 1, Len(s) - 1))
             + DigitValue(SubSeq(s, Len(s), Len(s)))

\* Number(text) for text without sign, point or exponent: 0 for blank text,
\* the value of a run of digits, NaN for anything else
ToNumber(text) ==
    LET t == Trim(text)
    IN IF t = "" THEN Number(0)
       ELSE IF \A i \in 1..Len(t) : IsDigit(SubSeq(t, i, i))
            THEN Number(DecimalValue(t))
       ELSE NaNValue

\* a % b
Remainder(a, b) ==
    IF a.nan \/ b.nan \/ b.n = 0 THEN NaNValue ELSE Number(a.n % b.n)

\* a === b
StrictEquals(a, b) == ~a.nan /\ ~b.nan /\ a.n = b.n

\* a >= b
AtLeast(a, b) == ~a.nan /\ ~b.nan /\ a.n >= b.n

\* checkField(pattern, value)
checkField(pattern, value) ==
    IF pattern = "*" THEN TRUE
    ELSE IF Includes(pattern, ",")
    THEN LET parts == Split(pattern, ",")
         IN \E i \in 1..Len(parts) :
                StrictEquals(ToNumber(parts[i]), Number(value))
    ELSE IF Includes(pattern, "/")
    THEN LET parts == Split(pattern, "/")
             start == ToNumber(parts[1])
             step == ToNumber(parts[2])
         IN StrictEquals(Remainder(Number(value), step), Remainder(start, step))
    ELSE IF Includes(pattern, "-")
    THEN LET parts == Split(pattern, "-")
             start == ToNumber(parts[1])
             end == ToNumber(parts[2])
         IN AtLeast(Number(value), start) /\ AtLeast(end, Number(value))
    ELSE StrictEquals(ToNumber(pattern), Number(value))

\* matchesCron(pattern, date); a date is its UTC minute, hour, day of the
\* month, month and day of the week (0 = Sunday)
matchesCron(pattern, date) ==
    LET fields == Split(pattern, " ")
    IN /\ checkField(fields[1], date.minute)
       /\ checkField(fields[2], date.hour)
       /\ checkField(fields[3], date.day)
       /\ checkField(fields[4], date.month)
       /\ (fields[5] = "*" \/ checkField(fields[5], date.dow))

\* const workflows: schedule and enabled of each configuration
workflows ==
    [dailyAnalysis     |-> [schedule |-> "0 9 * * *", enabled |-> TRUE],
     urgentAlerts      |-> [schedule |-> "*/30 * * * *", enabled |-> TRUE],
     weeklyDigest      |-> [schedule |-> "0 10 * * MON", enabled |-> TRUE],
     performanceReport |-> [schedule |-> "0 11 * * FRI", enabled |-> TRUE]]

\* the workflows handleScheduledWithRouting executes at a date
handleScheduledWithRouting(date) ==
    {key \in DOMAIN workflows :
        workflows[key].enabled /\ matchesCron(workflows[key].schedule, date)}

\* the dates the handler is invoked at: the minutes and hours around the
\* configured ones, on every day of a week (1 to 7 June 2026, Monday first)
CronMinutes == {0, 1, 15, 29, 30, 31, 59}
CronHours == {0, 8, 9, 10, 11, 12, 23}
CronDays == 1..7

CronDates ==
    {[minute |-> m, hour |-> h, day |-> d, month |-> 6, dow |-> d % 7] :
        m \in CronMinutes, h \in CronHours, d \in CronDays}

CronInit ==
    /\ fnOp = "none"
    /\ fnArgs \in {[date |-> date] : date \in CronDates}
    /\ fnResult = [none |-> TRUE]

\* the cron event arrives and the handler routes it
CronFires ==
    /\ fnOp = "none"
    /\ "date" \in DOMAIN fnArgs
    /\ fnOp' = "handleScheduledWithRouting"
    /\ fnResult' = [executed |-> handleScheduledWithRouting(fnArgs.date)]
    /\ UNCHANGED fnArgs
    /\ UNCHANGED <<runVars, aggVars, clsVars, trgVars>>

-----------------------------------------------------------------------------
(* retryAsync(fn, maxRetries, initialDelay) *)

MaxCalls == 4

MaxRetriesArg == 3

\* Math.pow(2, i)
RECURSIVE Pow2(_)
Pow2(i) == IF i <= 0 THEN 1 ELSE 2 * Pow2(i - 1)

\* the calls of retryAsync: maxRetries from -1 on, and for each call of fn
\* whether it resolves (call k resolves to k, or rejects with error k)
RetryArgs ==
    [maxRetries : -1..MaxRetriesArg, initialDelay : {1000},
     resolves : [1..MaxCalls -> BOOLEAN]]

RetryInit ==
    /\ fnOp = "none"
    /\ fnArgs \in RetryArgs
    /\ fnResult = [none |-> TRUE]

\* let lastError; for (let i = 0; ...: lastError 0 is undefined
RetryStart ==
    /\ fnOp = "none"
    /\ "maxRetries" \in DOMAIN fnArgs
    /\ fnOp' = "retryAsync"
    /\ fnResult' = [pc |-> "loop", i |-> 0, calls |-> 0, lastError |-> 0,
                    value |-> 0, delays |-> <<>>]
    /\ UNCHANGED fnArgs
    /\ UNCHANGED <<runVars, aggVars, clsVars, trgVars>>

\* one iteration: return await fn(), or the catch block up to the delay
RetryCall ==
    /\ fnOp = "retryAsync"
    /\ fnResult.pc = "loop"
    /\ fnResult.i < fnArgs.maxRetries
    /\ fnResult.calls < MaxCalls
    /\ LET k == fnResult.calls + 1
       IN fnResult' =
            IF fnArgs.resolves[k]
            THEN [fnResult EXCEPT !.pc = "returned", !.calls = k, !.value = k]
            ELSE IF fnResult.i < fnArgs.maxRetries - 1
            THEN [fnResult EXCEPT !.pc = "sleep", !.calls = k, !.lastError = k]
            ELSE [fnResult EXCEPT !.calls = k, !.lastError = k, !.i = @ + 1]
    /\ UNCHANGED <<fnOp, fnArgs>>
    /\ UNCHANGED <<runVars, aggVars, clsVars, trgVars>>

\* await new Promise(resolve => setTimeout(resolve, delay)); i++
RetrySleep ==
    /\ fnOp = "retryAsync"
    /\ fnResult.pc = "sleep"
    /\ fnResult' = [fnResult EXCEPT
           !.pc = "loop",
           !.delays = Append(@, fnArgs.initialDelay * Pow2(fnResult.i)),
           !.i = @ + 1]
    /\ UNCHANGED <<fnOp, fnArgs>>
    /\ UNCHANGED <<runVars, aggVars, clsVars, trgVars>>

\* the loop condition fails: throw lastError
RetryThrow ==
    /\ fnOp = "retryAsync"
    /\ fnResult.pc = "loop"
    /\ ~(fnResult.i < fnArgs.maxRetries)
    /\ fnResult' = [fnResult EXCEPT !.pc = "threw"]
    /\ UNCHANGED <<fnOp, fnArgs>>
    /\ UNCHANGED <<runVars, aggVars, clsVars, trgVars>>

-----------------------------------------------------------------------------
(* Specifications *)

vars == <<runVars, aggVars, clsVars, trgVars, fnVars>>

Init == RunInit /\ AggIdle /\ ClsIdle /\ TrgIdle /\ FnIdle

Next ==
    \/ \E row \in RunPool : StoreInsert(row)
    \/ \E e \in {"workflow", "scheduled"} : Start(e)
    \/ WfFetch
    \/ WfAnalyze
    \/ WfGenerateInsights
    \/ WfSendToSlack
    \/ WfLogAnalysis
    \/ ShFetch
    \/ ShAnalyze
    \/ ShSendToSlack
    \/ ShLogAnalysis

Spec == Init /\ [][Next]_vars

InitAgg == AggInit /\ RunIdle /\ ClsIdle /\ TrgIdle /\ FnIdle

NextAgg ==
    \/ \E productOnly \in BOOLEAN : ApiStats(productOnly)
    \/ \E ai \in AggReplies : WorkflowAnalysis(TRUE, ai)
    \/ \E ai \in AggReplies : ScheduledAnalysis(TRUE, ai)

SpecAgg == InitAgg /\ [][NextAgg]_vars

InitWords == WordsInit /\ RunIdle /\ ClsIdle /\ TrgIdle /\ FnIdle

NextWords == \E productOnly \in BOOLEAN : ApiStats(productOnly)

SpecWords == InitWords /\ [][NextWords]_vars

InitClassify == ClsInit /\ RunIdle /\ AggIdle /\ TrgIdle /\ FnIdle

NextClassify ==
    \E payload \in Payloads, reply \in ClassifyReplies,
       ctorThrows \in BOOLEAN, insertThrows \in BOOLEAN :
        Ingest(payload, reply, ctorThrows, insertThrows)

SpecClassify == InitClassify /\ [][NextClassify]_vars

InitTrigger == TrgInit /\ RunIdle /\ AggIdle /\ ClsIdle /\ FnIdle

NextTrigger ==
    \/ Tick
    \/ \E p \in Triggers : Scheduled(p)
    \/ \E p \in Triggers, fails \in BOOLEAN : Create(p, fails)

SpecTrigger == InitTrigger /\ [][NextTrigger]_vars

InitIssues == IssuesInit /\ RunIdle /\ ClsIdle /\ TrgIdle /\ FnIdle

NextIssues ==
    \/ WorkflowAnalysis(FALSE, AiThrows)
    \/ ScheduledAnalysis(FALSE, AiThrows)

SpecIssues == InitIssues /\ [][NextIssues]_vars

InitParse == ParseInit /\ RunIdle /\ AggIdle /\ ClsIdle /\ TrgIdle

NextParse == ParseAiJson

SpecParse == InitParse /\ [][NextParse]_vars

InitCron == CronInit /\ RunIdle /\ AggIdle /\ ClsIdle /\ TrgIdle

NextCron == CronFires

SpecCron == InitCron /\ [][NextCron]_vars

InitRetry == RetryInit /\ RunIdle /\ AggIdle /\ ClsIdle /\ TrgIdle

NextRetry ==
    \/ RetryStart
    \/ RetryCall
    \/ RetrySleep
    \/ RetryThrow

SpecRetry == InitRetry /\ [][NextRetry]_vars

InitDash == DashInit /\ RunIdle /\ AggIdle /\ ClsIdle /\ TrgIdle

NextDash == DashboardSummary

SpecDash == InitDash /\ [][NextDash]_vars

-----------------------------------------------------------------------------
(* Properties of the daily run *)

Finished == status \in {"done", "errored"}

\* the AnalysisResult of the run
RunResult == IF entry = "workflow" THEN insights ELSE analysis

\* C2: a daily run that fetched zero records ends with an AnalysisResult of
\* totalFeedback = 0, without any call to the notification collaborator, and
\* with exactly one analysis log entry written, for both entry points.
C2_ZeroRecordsRun ==
    (Finished /\ fetchOutcome = "ok" /\ feedbackData = <<>>)
        => /\ RunResult.totalFeedback = 0
           /\ slackCalls = <<>>
           /\ Len(logCalls) = 1

\* C3: whatever the outcome of the delivery step (sent, non-success reply,
\* thrown error, target not configured), the run writes exactly one analysis
\* log entry, and its data is the serialization of the AnalysisResult that
\* was computed before the delivery attempt.
C3_LogAfterEveryDelivery ==
    (Finished /\ slackResult # "pending")
        => /\ Len(logCalls) = 1
           /\ logCalls[1].data = JSONStringify(deliveredResult)

\* position of a step in the pipeline fetch, analyze, compose, deliver, log
StageRank(name) ==
    CASE name \in {"fetch-feedback", "fetch"} -> 1
      [] name \in {"analyze-with-ai", "analyzeFeedback"} -> 2
      [] name = "generate-insights" -> 3
      [] name \in {"send-to-slack", "sendToSlack"} -> 4
      [] name \in {"log-analysis", "logAnalysis"} -> 5

\* C4: within one run the stages execute in the order fetch, analyze,
\* compose, deliver, log, each at most once, and the log entry is written
\* only after the delivery attempt has ended.
C4_StageOrder ==
    /\ \A i, j \in 1..Len(trace) :
          i < j => StageRank(trace[i]) < StageRank(trace[j])
    /\ logCalls # <<>> => slackResult # "pending"
    /\ Len(logCalls) <= 1

\* a workflow run went through all five steps, the send having thrown
C4_Witness ==
    /\ status = "done"
    /\ entry = "workflow"
    /\ Len(trace) = 5
    /\ slackResult = "throw"
    /\ Len(logCalls) = 1

-----------------------------------------------------------------------------
(* Properties of the aggregation functions *)

AggTotal == IF aggOp = "stats" THEN aggResult.total ELSE aggResult.totalFeedback

\* number of rows of the input whose field f has the value key once the
\* missing value is replaced by its sentinel
CountKey(rows, f, sentinel, key) ==
    Cardinality({i \in 1..Len(rows) :
                    (IF Falsy(rows[i][f]) THEN sentinel ELSE rows[i][f]) = key})

\* C1: for every collection of records, the empty one included, the values
\* of byPriority, of bySentiment and of byCategory each sum to the total, in
\* GET /api/stats, in analyzeWithAI and in analyzeFeedback; a record without
\* priority or sentiment counts under "unknown", one without category under
\* "other".
C1_DistributionsSumToTotal ==
    aggOp # "none" =>
        /\ AggTotal = Len(aggInput)
        /\ SumValues(aggResult.byPriority) = AggTotal
        /\ SumValues(aggResult.bySentiment) = AggTotal
        /\ SumValues(aggResult.byCategory) = AggTotal
        /\ ObjGet(aggResult.byPriority, "unknown")
              = CountKey(aggInput, "priority", "unknown", "unknown")
        /\ ObjGet(aggResult.bySentiment, "unknown")
              = CountKey(aggInput, "sentiment", "unknown", "unknown")
        /\ ObjGet(aggResult.byCategory, "other")
              = CountKey(aggInput, "category", "other", "other")

UrgentRows(rows) == {i \in 1..Len(rows) : rows[i].priority \in {"P0", "P1"}}

\* the urgent count the AnalysisResult carries: the counter of the scheduled
\* handler, the length of urgentItems in the workflow (it has no counter)
CarriedUrgentCount ==
    IF aggOp = "scheduled" THEN aggResult.urgentCount
    ELSE Len(aggResult.urgentItems)

\* C9: the urgent count carried by the AnalysisResult and shown in the
\* notification is the number of fetched records with priority P0 or P1,
\* byPriority[P0] + byPriority[P1], also when there are more than 5; only the
\* list of urgent items carried for delivery is capped at 5.
C9_UrgentCountIsTrueCount ==
    aggOp \in {"workflow", "scheduled"} =>
        LET n == Cardinality(UrgentRows(aggInput))
        IN /\ n = ObjGet(aggResult.byPriority, "P0")
                    + ObjGet(aggResult.byPriority, "P1")
           /\ CarriedUrgentCount = n
           /\ aggBlocks.urgentCount = n
           /\ Len(aggBlocks.urgentItems) <= UrgentItemsCap

RecentRows(rows) ==
    {i \in 1..Len(rows) :
        rows[i].created_at.valid /\ rows[i].created_at.t > NowT - SevenDays}

\* C10: last7Days of GET /api/stats counts exactly the records whose
\* created_at parses to an instant strictly greater than now - 7 days; a
\* record whose created_at cannot be parsed is left out of last7Days, raises
\* no error, and is still counted in total and in each of the three maps.
C10_Last7Days ==
    aggOp = "stats" =>
        /\ aggResult.last7Days = Cardinality(RecentRows(aggInput))
        /\ aggResult.total = Len(aggInput)
        /\ \A i \in 1..Len(aggInput) :
              ~aggInput[i].created_at.valid =>
                 /\ ObjGet(aggResult.byPriority, Or(aggInput[i].priority, "unknown"))
                      = CountKey(aggInput, "priority", "unknown",
                                 Or(aggInput[i].priority, "unknown"))
                 /\ ObjGet(aggResult.bySentiment, Or(aggInput[i].sentiment, "unknown"))
                      = CountKey(aggInput, "sentiment", "unknown",
                                 Or(aggInput[i].sentiment, "unknown"))
                 /\ ObjGet(aggResult.byCategory, Or(aggInput[i].category, "other"))
                      = CountKey(aggInput, "category", "other",
                                 Or(aggInput[i].category, "other"))

-----------------------------------------------------------------------------
(* Properties of the classifier *)

Classified == clsLabels.outcome # "none"

Populated(v) == v.t = "string" /\ Len(v.v) > 0

\* C5: without an AI binding, inferFeedbackMetadata never throws, whatever
\* USE_MOCK_AI is: it returns null when deterministic mode is not requested
\* and a label set with all five fields populated when it is.
C5_NoBindingNeverThrows ==
    (Classified /\ ~clsEnv.AI) =>
        /\ clsLabels.outcome # "threw"
        /\ clsEnv.USE_MOCK_AI # "true" => clsLabels.outcome = "null"
        /\ clsEnv.USE_MOCK_AI = "true" =>
              /\ clsLabels.outcome = "labels"
              /\ \A k \in {"sentiment", "priority", "category", "summary",
                           "priority_reason"} : Populated(clsLabels.labels[k])

\* the value POST /ingest hands to the validation of field f
Candidate(f) == Coalesce(clsReq.payload[f], clsLabels.labels[f])

KeptExactly(f, allowed) ==
    /\ clsStored[f] # NULL =>
          /\ Candidate(f).t = "string"
          /\ Candidate(f).v = clsStored[f]
          /\ clsStored[f] \in allowed
    /\ (Candidate(f).t = "string" /\ Candidate(f).v \in allowed) =>
          clsStored[f] = Candidate(f).v

\* C6: a sentiment or priority, from the classifier or from the caller, is
\* stored only if it is exactly a taxonomy value; anything else, case and
\* whitespace variants included, is stored as null, never coerced.
C6_ChoiceExactMatch ==
    clsResp = "ok" =>
        /\ KeptExactly("sentiment", SENTIMENTS)
        /\ KeptExactly("priority", PRIORITIES)

\* the classifier answered "Negative" and " P0", the caller sent "positive ":
\* the sentiment is nulled; another request keeps the caller's exact "P2"
C6_Witness ==
    /\ clsResp = "ok"
    /\ clsLabels.outcome = "labels"
    /\ clsLabels.labels.sentiment = Str("Negative")
    /\ clsReq.payload.sentiment = Undefined
    /\ clsReq.payload.priority = Str("P2")
    /\ clsStored.sentiment = NULL
    /\ clsStored.priority = "P2"

\* C7: when the call to the inference collaborator throws, the classifier
\* returns the heuristic label set of the text, not an absent label set.
C7_ThrowFallsBackToHeuristic ==
    (/\ clsResp = "ok"
     /\ clsEnv.AI
     /\ clsEnv.USE_MOCK_AI # "true"
     /\ clsReq.reply.kind = "throw")
        => clsLabels = Returned(mockAiInference(clsStored.raw_text))

OutageKeywords == {"outage", "down", "data loss", "security"}
CategoryOverrideKeywords == {"perform", "doc", "billing", "payment", "ui", "ux"}

\* C8: under the heuristic, "App is down, can't log in, losing money" gets
\* P0, negative and bug; a text with an outage keyword and no category
\* override keyword gets P0 and bug and is labelled negative.
C8_OutageExample ==
    (clsResp = "ok" /\ clsEnv.USE_MOCK_AI = "true") =>
        LET text == ToLowerCase(clsStored.raw_text)
            l == clsLabels.labels
            expected == /\ l.priority = Str("P0")
                        /\ l.sentiment = Str("negative")
                        /\ l.category = Str("bug")
        IN /\ clsStored.raw_text = "App is down, can't log in, losing money"
                => expected
           /\ ( /\ \E w \in OutageKeywords : Includes(text, w)
                /\ \A w \in CategoryOverrideKeywords : ~Includes(text, w) )
                => expected

-----------------------------------------------------------------------------
(* Properties of the keyword ranking *)

\* the words of all records, in the order the handler meets them
RECURSIVE AllWords(_)
AllWords(rows) ==
    IF rows = <<>> THEN <<>>
    ELSE RecordWords(Head(rows)) \o AllWords(Tail(rows))

Occurrences(stream, word) == Cardinality({k \in 1..Len(stream) : stream[k] = word})

FirstSeen(stream, word) ==
    CHOOSE k \in 1..Len(stream) :
        stream[k] = word /\ \A l \in 1..(k - 1) : stream[l] # word

\* word a is ranked before word b: more frequent, or as frequent and seen
\* first (a strict total order of the words of the stream, so a list is in
\* this order when each entry is ranked before the next one)
RankedBefore(stream, a, b) ==
    \/ Occurrences(stream, a) > Occurrences(stream, b)
    \/ /\ Occurrences(stream, a) = Occurrences(stream, b)
       /\ FirstSeen(stream, a) < FirstSeen(stream, b)

\* C11: topWords of GET /api/stats is a function of the ordered record list
\* (computed again it is the same list); its entries carry the frequency of
\* their word, are in non-increasing order of count, words of equal count in
\* the order in which they were first seen; it has at most 50 entries, the
\* best ranked ones.
C11_TopWordsRanked ==
    aggOp = "stats" =>
        LET tw == aggResult.topWords
            stream == AllWords(aggInput)
            distinct == {stream[k] : k \in 1..Len(stream)}
            listed == {tw[i].word : i \in 1..Len(tw)}
        IN /\ tw = topWords(aggInput)
           /\ Len(tw) <= 50
           /\ Len(tw) = Min(50, Cardinality(distinct))
           /\ listed \subseteq distinct
           /\ \A i \in 1..Len(tw) : tw[i].count = Occurrences(stream, tw[i].word)
           /\ \A i \in 1..(Len(tw) - 1) :
                 /\ tw[i].count >= tw[i + 1].count
                 /\ RankedBefore(stream, tw[i].word, tw[i + 1].word)
           /\ \A w \in distinct \ listed :
                 RankedBefore(stream, tw[Len(tw)].word, w)

\* more than 50 distinct words were counted, some of them more than once,
\* and the list of 50 holds words of equal count
C11_Witness ==
    /\ aggOp = "stats"
    /\ Len(aggResult.topWords) = 50
    /\ aggResult.topWords[1].count > 1
    /\ aggResult.topWords[49].count = aggResult.topWords[50].count
    /\ Cardinality({AllWords(aggInput)[k] : k \in 1..Len(AllWords(aggInput))}) > 50

-----------------------------------------------------------------------------
(* Properties of POST /ingest *)

LabelFields == {"sentiment", "priority", "category", "summary", "priority_reason"}

\* the caller sent the field
Supplied(f) == clsReq.payload[f].t # "undefined"

\* what the classifier returned for the field
ClassifierValue(f) ==
    IF f = "priority_reason" /\ clsLabels.labels[f].t \in {"undefined", "null"}
    THEN clsLabels.labels.reason
    ELSE clsLabels.labels[f]

\* the stored column holds the value as it is
StoredAsIs(f, value) ==
    IF value.t \in {"undefined", "null"} THEN clsStored[f] = NULL
    ELSE clsStored[f] = value.v

\* C12 as stated: for each of sentiment, priority, category, summary and
\* priority_reason the stored value is the caller's value if the caller
\* supplied the field, and the classifier's value if not.
C12_CallerValueStored ==
    clsResp = "ok" =>
        \A f \in LabelFields :
            IF Supplied(f) THEN StoredAsIs(f, clsReq.payload[f])
            ELSE StoredAsIs(f, ClassifierValue(f))

\* the validation POST /ingest applies to the value chosen for a field
Validated(f, value) ==
    IF f = "sentiment" THEN sanitizeChoice(value, SENTIMENTS)
    ELSE IF f = "priority" THEN sanitizeChoice(value, PRIORITIES)
    ELSE sanitizeNullable(value)

\* C12 (amended): for each of the five fields the stored value is the
\* validated form of the caller's value when the caller supplied a value
\* other than null, and the validated form of the classifier's value
\* otherwise; the classifier's value is never used when the caller supplied
\* one.  A summary that is null after validation is the first 120
\* characters of the raw text.
C12_CallerValueTakesPrecedence ==
    clsResp = "ok" =>
        \A f \in LabelFields :
            LET chosen == IF clsReq.payload[f].t \notin {"undefined", "null"}
                          THEN clsReq.payload[f] ELSE ClassifierValue(f)
                valid == Validated(f, chosen)
            IN clsStored[f] =
                  IF f = "summary" /\ valid = NULL
                  THEN StrSlice(clsStored.raw_text, SummaryLength)
                  ELSE valid

\* the caller's "positive" replaced the classifier's "negative", and the
\* category the caller left out is the classifier's
C12_Witness ==
    /\ clsResp = "ok"
    /\ clsReq.payload.sentiment = Str("positive")
    /\ clsLabels.labels.sentiment = Str("negative")
    /\ clsStored.sentiment = "positive"
    /\ ~Supplied("category")
    /\ clsLabels.labels.category = Str("bug")
    /\ clsStored.category = "bug"

\* the texts among the created_at values sent that are ISO 8601 timestamps
IsoTimestamps == {"2026-01-05T08:00:00.000Z"}

\* C13: the stored created_at is the caller's value when that value is a
\* parseable ISO 8601 timestamp, and the current time when the caller's
\* value is absent or cannot be parsed as a timestamp.
C13_CreatedAtDefault ==
    clsResp = "ok" =>
        LET sent == clsReq.payload.created_at
        IN IF sent.t = "string" /\ sent.v \in IsoTimestamps
           THEN clsStored.created_at = sent.v
           ELSE clsStored.created_at = NowIso

\* the request passed the check of source and raw_text
RequiredFieldsGiven ==
    /\ Trim(StringOrEmpty(clsReq.payload.source)) # ""
    /\ Trim(StringOrEmpty(clsReq.payload.raw_text)) # ""

\* C14: a POST /ingest with non-empty source and raw_text whose INSERT
\* succeeds stores exactly one record and answers with success, for every
\* classification outcome: with an AI binding every reply of the inference
\* call (labels, nothing, text that cannot be parsed, a thrown error) ends as
\* a label set or as none, and with either the INSERT is issued.
C14_IngestSucceeds ==
    (clsResp # "none" /\ RequiredFieldsGiven) =>
        /\ clsInsert = "ok" =>
              /\ clsResp = "ok"
              /\ Len(clsTable) = 1
              /\ clsTable[1] = clsStored
        /\ clsResp = "ok" => clsInsert = "ok"
        /\ clsLabels.outcome \in {"labels", "null"} => clsInsert # "none"
        /\ clsEnv.AI => clsLabels.outcome \in {"labels", "null"}

\* the inference call threw and the record was stored all the same
C14_Witness ==
    /\ clsResp = "ok"
    /\ clsEnv.AI
    /\ clsEnv.USE_MOCK_AI # "true"
    /\ clsReq.reply.kind = "throw"
    /\ clsLabels.outcome = "null"
    /\ clsInsert = "ok"
    /\ Len(clsTable) = 1
    /\ clsTable[1].sentiment = NULL

-----------------------------------------------------------------------------
(* Properties of the delivery step *)

\* calls of fetch(webhookUrl, ...) made by the run: the requests sent, and
\* the call of the scheduled handler that rejected on a malformed URL
FetchInvocations ==
    Len(slackCalls)
        + (IF entry = "scheduled" /\ slackResult = "throw"
              /\ ~ParseURL(env.SLACK_WEBHOOK_URL).ok
           THEN 1 ELSE 0)

\* the run fetched at least one record and has a notification target
DeliveryDue ==
    /\ fetchOutcome = "ok"
    /\ feedbackData # <<>>
    /\ ~Falsy(env.SLACK_WEBHOOK_URL)

\* C16: a finished daily run that fetched at least one record and has a
\* configured notification target invoked the notification collaborator
\* exactly once, whatever the send returned.
C16_NotifiedExactlyOnce ==
    (Finished /\ DeliveryDue) => FetchInvocations = 1

\* isValidSlackWebhook(url): the URL parses, its host is hooks.slack.com and
\* its path starts with /services/
isValidSlackWebhook(url) ==
    LET parsed == ParseURL(url)
    IN parsed.ok /\ parsed.hostname = "hooks.slack.com"
                 /\ StartsWith(parsed.pathname, "/services/")

\* C17: every request of the daily run goes to a URL that passes
\* isValidSlackWebhook; with a configured URL that fails the check no
\* request is sent and the run goes on past the delivery step.
C17_OnlyValidWebhooks ==
    /\ \A i \in 1..Len(slackCalls) : isValidSlackWebhook(slackCalls[i].url)
    /\ (/\ ~Falsy(env.SLACK_WEBHOOK_URL)
        /\ ~isValidSlackWebhook(env.SLACK_WEBHOOK_URL)
        /\ slackResult # "pending")
           => slackCalls = <<>> /\ status # "errored"

-----------------------------------------------------------------------------
(* Properties of the recommendations and of the message *)

\* the run composed an AnalysisResult
Analyzed == analysis # NoResult

\* C18: in a run with a non-empty top-issues list and an inference
\* collaborator, the recommendedActions of the AnalysisResult are not
\* empty: the lines of the reply, or the three generic recommendations
\* when the request failed.
C18_ActionsNeverEmpty ==
    (Analyzed /\ env.AI /\ analysis.topIssues # <<>>)
        => analysis.recommendedActions # <<>>

\* C19: the AnalysisResult a daily run produced, and the one it logged,
\* carry at most 4 recommended actions.
C19_AtMostFourActions ==
    /\ Analyzed => Len(analysis.recommendedActions) <= ActionsCap
    /\ \A i \in 1..Len(logCalls) :
           Len(logCalls[i].data.json.recommendedActions) <= ActionsCap

\* a notification message was built from an AnalysisResult
MessageBuilt == aggOp \in {"workflow", "scheduled"}

\* C20: the message built by either sendToSlack shows at most 3 top issues,
\* at most 3 recommended actions and at most 3 urgent items, and has an
\* urgent-items section exactly when the urgent count is greater than 0.
C20_MessageCaps ==
    MessageBuilt
        => /\ Len(aggBlocks.topIssues) <= ShownCap
           /\ Len(aggBlocks.recommendedActions) <= ShownCap
           /\ Len(aggBlocks.urgentItems) <= ShownCap
           /\ (aggBlocks.urgentSection <=> (CarriedUrgentCount > 0))

-----------------------------------------------------------------------------
(* Properties of the end of the run *)

\* the delivery attempt failed: a non-success reply, or an exception
DeliveryFailed == slackResult \in {"non_ok", "throw", "url_error"}

\* C22: a daily run whose fetch succeeded ends in DONE whatever the
\* recommendation request, the delivery attempt and the log write did; a
\* failed delivery is followed by the log step, and no step runs twice.
C22_FetchedRunEndsDone ==
    /\ (Finished /\ fetchOutcome = "ok") => status = "done"
    /\ (Finished /\ DeliveryFailed) => Len(logCalls) = 1
    /\ \A i, j \in 1..Len(trace) : i # j => trace[i] # trace[j]

-----------------------------------------------------------------------------
(* Properties of the top-issues list *)

\* the fetched records that share a summary text
GroupOf(rows, text) == {i \in 1..Len(rows) : rows[i].summary = text}

\* how many records of a group have a sentiment (a record without one
\* counts as "neutral", as the grouping reads it)
SentimentCount(rows, text, s) ==
    Cardinality({i \in GroupOf(rows, text) :
                    Or(rows[i].sentiment, "neutral") = s})

\* C23: each entry of the top-issues list carries the sentiment that occurs
\* most often among the fetched records with that summary text.
C23_DominantSentiment ==
    MessageBuilt =>
        \A k \in 1..Len(aggResult.topIssues) :
            LET e == aggResult.topIssues[k]
            IN \A i \in GroupOf(aggInput, e.issue) :
                   SentimentCount(aggInput, e.issue, e.sentiment)
                       >= SentimentCount(aggInput, e.issue,
                              Or(aggInput[i].sentiment, "neutral"))

\* the summary texts that form a group among the fetched records
SummaryGroups(rows) ==
    {rows[i].summary : i \in {j \in 1..Len(rows) : ~Falsy(rows[j].summary)}}

ListedIssues == {aggResult.topIssues[k].issue : k \in 1..Len(aggResult.topIssues)}

\* C24: the top-issues list has at most 5 entries with pairwise distinct
\* summary texts; the count of an entry is the number of fetched records
\* with that summary; counts do not increase along the list; no group that
\* was left out is larger than a group in the list.
C24_TopIssuesRanked ==
    MessageBuilt =>
        LET top == aggResult.topIssues
        IN /\ Len(top) <= TopIssuesCap
           /\ \A i, j \in 1..Len(top) : i # j => top[i].issue # top[j].issue
           /\ \A k \in 1..Len(top) :
                  top[k].count = Cardinality(GroupOf(aggInput, top[k].issue))
           /\ \A k \in 1..(Len(top) - 1) : top[k].count >= top[k + 1].count
           /\ \A text \in SummaryGroups(aggInput) \ ListedIssues :
                  \A k \in 1..Len(top) :
                      Cardinality(GroupOf(aggInput, text)) <= top[k].count

\* six groups of different sizes: five entries are listed, a group of one
\* record is left out, and a group that occurred last stands first
C24_Witness ==
    /\ MessageBuilt
    /\ Len(aggResult.topIssues) = TopIssuesCap
    /\ SummaryGroups(aggInput) \ ListedIssues # {}
    /\ aggResult.topIssues[1].count = 3
    /\ aggResult.topIssues[1].issue = "Typo in docs"
    /\ aggResult.topIssues[TopIssuesCap].count = 1

-----------------------------------------------------------------------------
(* Properties of safeParseAiJson *)

\* positions i..j hold a brace-delimited object: "{", members, "}"
ObjectAt(text, i, j) ==
    /\ i < j
    /\ text[i] = LB
    /\ text[j] = RB
    /\ \A k \in (i + 1)..(j - 1) : text[k].tok = "member"

\* the objects that occur in the text, as pairs of positions
ObjectsIn(text) ==
    {span \in (1..Len(text)) \X (1..Len(text)) :
        ObjectAt(text, span[1], span[2])}

\* the first of them
FirstObject(text) ==
    CHOOSE span \in ObjectsIn(text) :
        \A other \in ObjectsIn(text) : span[1] <= other[1]

\* C26: safeParseAiJson returns the first brace-delimited object that occurs
\* in the text, whatever precedes or follows it, and fails only when the
\* text holds no object.
C26_FirstObjectExtracted ==
    fnOp = "safeParseAiJson" =>
        IF ObjectsIn(fnArgs.text) = {}
        THEN ~fnResult.ok
        ELSE LET span == FirstObject(fnArgs.text)
             IN /\ fnResult.ok
                /\ fnResult.labels
                     = ObjectOf(SubSeq(fnArgs.text, span[1] + 1, span[2] - 1))

-----------------------------------------------------------------------------
(* Properties of the free-text labels and of the summary *)

TextFields == {"category", "summary", "priority_reason"}

\* the value POST /ingest validates for a field: the caller's unless it is
\* null or undefined, else the classifier's
ChosenValue(f) ==
    IF clsReq.payload[f].t \notin {"undefined", "null"}
    THEN clsReq.payload[f] ELSE ClassifierValue(f)

\* a string that is non-empty after trimming
NonEmptyString(value) == value.t = "string" /\ Len(Trim(value.v)) > 0

\* the stored column when the value is treated as absent
AbsentValue(f) ==
    IF f = "summary" THEN StrSlice(clsStored.raw_text, SummaryLength) ELSE NULL

\* C27: category, summary and priority_reason keep a value only if it is a
\* string that is non-empty after trimming; an empty or whitespace-only
\* string, and a value that is no string, are treated as absent and never
\* turned into a label.
C27_OnlyNonEmptyStringsKept ==
    clsResp = "ok" =>
        \A f \in TextFields :
            IF NonEmptyString(ChosenValue(f))
            THEN clsStored[f] = Trim(ChosenValue(f).v)
            ELSE clsStored[f] = AbsentValue(f)

\* C28: every record stored by POST /ingest has a summary of at most 120
\* characters, wherever the summary comes from.
C28_SummaryAtMost120 ==
    \A i \in 1..Len(clsTable) : Len(clsTable[i].summary) <= SummaryLength

-----------------------------------------------------------------------------
(* Properties of the cron routing *)

\* the times the configured schedules state
ScheduledAt(key, date) ==
    CASE key = "dailyAnalysis" -> date.hour = 9 /\ date.minute = 0
      [] key = "urgentAlerts" -> date.minute \in {0, 30}
      [] key = "weeklyDigest" ->
             date.dow = 1 /\ date.hour = 10 /\ date.minute = 0
      [] key = "performanceReport" ->
             date.dow = 5 /\ date.hour = 11 /\ date.minute = 0

\* C29: handleScheduledWithRouting executes a workflow exactly at the times
\* its schedule states: dailyAnalysis at 09:00 UTC, urgentAlerts at minute 0
\* and 30 of every hour, weeklyDigest at 10:00 UTC on Mondays,
\* performanceReport at 11:00 UTC on Fridays.
C29_RunsOnSchedule ==
    fnOp = "handleScheduledWithRouting" =>
        \A key \in DOMAIN workflows :
            key \in fnResult.executed <=> ScheduledAt(key, fnArgs.date)

-----------------------------------------------------------------------------
(* Properties of retryAsync *)

\* retryAsync has settled
RetrySettled == fnOp = "retryAsync" /\ fnResult.pc \in {"returned", "threw"}

\* C30: retryAsync calls fn at least once and at most maxRetries times,
\* for every integer maxRetries; it returns the result of the first call
\* that succeeds and calls fn no more; when every call fails it throws the
\* error of the last call.
C30_RetryBounds ==
    RetrySettled =>
        /\ fnResult.calls >= 1
        /\ fnResult.calls <= fnArgs.maxRetries
        /\ \A k \in 1..(fnResult.calls - 1) : ~fnArgs.resolves[k]
        /\ fnResult.pc = "returned" =>
               fnArgs.resolves[fnResult.calls] /\ fnResult.value = fnResult.calls
        /\ fnResult.pc = "threw" =>
               ~fnArgs.resolves[fnResult.calls]
                   /\ fnResult.lastError = fnResult.calls

-----------------------------------------------------------------------------
(* Properties of the cron trigger *)

\* the invocations that computed an identifier
Requested == {p \in Triggers : trgProc[p].id # NULL}

\* the UTC calendar day, counted from 2026-01-10, an invocation fell on
UtcDay(p) == trgProc[p].readAt \div 24

\* how many instances the binding created for an identifier
InstancesOf(id) ==
    Cardinality({i \in 1..Len(trgInstances) : trgInstances[i] = id})

\* C15: triggers of one UTC day request the same identifier
\* daily-analysis-<YYYY-MM-DD> and triggers of different days request
\* different ones; the binding holds at most one instance per identifier;
\* an invocation whose create was rejected still ends normally.
C15_OneRunPerDay ==
    /\ \A p \in Requested, q \in Requested :
           (UtcDay(p) = UtcDay(q)) <=> (trgProc[p].id = trgProc[q].id)
    /\ \A p \in Requested :
           /\ StartsWith(trgProc[p].id, "daily-analysis-2026-01-")
           /\ Len(trgProc[p].id) = 25
           /\ InstancesOf(trgProc[p].id) <= 1
    /\ \A p \in Triggers :
           trgProc[p].pc = "done" => trgProc[p].handler = "ok"

\* two triggers of one day, the first created and the second rejected as a
\* duplicate, and a trigger of another day that created its own instance
C15_Witness ==
    \E p \in Triggers, q \in Triggers, r \in Triggers :
        /\ trgProc[p].pc = "done" /\ trgProc[q].pc = "done"
        /\ trgProc[r].pc = "done"
        /\ p # q
        /\ UtcDay(p) = UtcDay(q)
        /\ trgProc[p].create = "created"
        /\ trgProc[q].create = "rejected"
        /\ trgProc[q].id \in InstanceIds
        /\ trgProc[r].create = "created"
        /\ UtcDay(r) # UtcDay(p)
        /\ Len(trgInstances) = 2

-----------------------------------------------------------------------------
(* Properties of the dashboard narrative *)

Summarized == fnOp = "dashboard"

\* the inference collaborator is not configured: no AI binding, and the
\* mock mode (USE_MOCK_AI === "true") is not switched on
NoCollaborator == ~fnArgs.env.AI /\ fnArgs.env.USE_MOCK_AI # "true"

\* the statistics cover zero records
ZeroRecords == ~fnArgs.listThrows /\ fnArgs.allFeedback = <<>>

\* C21: when the inference collaborator is not configured, or the
\* statistics cover zero records, GET /dashboard makes no call to it and
\* the narrative is empty, so that no section is rendered.
C21_NarrativeOmitted ==
    (Summarized /\ (NoCollaborator \/ ZeroRecords))
        => /\ fnResult.calls = 0
           /\ fnResult.aiSummary = ""
           /\ ~SummarySection(fnResult.aiSummary)

\* the position of the first candidate that holds a non-empty string, 0 if
\* there is none
FirstNonEmpty(cands) ==
    IF \E i \in 1..Len(cands) : ~Falsy(cands[i])
    THEN CHOOSE i \in 1..Len(cands) :
             ~Falsy(cands[i]) /\ \A j \in 1..(i - 1) : Falsy(cands[j])
    ELSE 0

\* the collaborator was called and answered
Answered ==
    /\ Summarized
    /\ fnResult.calls = 1
    /\ fnArgs.response.kind # "throw"

\* C25: the narrative is the first candidate, in the fixed order, that
\* holds a non-empty string; the unexpected-format text is produced only
\* when no candidate holds one.
C25_FirstNonEmptyCandidate ==
    Answered =>
        LET cands == NarrativeCandidates(fnArgs.response)
            first == FirstNonEmpty(cands)
        IN IF first = 0 THEN fnResult.aiSummary = UnexpectedFormat
           ELSE fnResult.aiSummary = cands[first]

====
